---- MODULE Spec2Model ----
(***************************************************************************)
(* Model of the trie node representation of blart                          *)
(* (src/src/nodes/representation.rs): the Header with its compressed       *)
(* prefix, and the four inner node layouts InnerNode4, InnerNode16,        *)
(* InnerNode48 and InnerNode256 with lookup_child, write_child, grow,      *)
(* is_full, first_child, last_child and iter.                              *)
(*                                                                         *)
(* Arrays keep the 0-based indices of the source: an array of length n is  *)
(* a function with domain 0..n-1.  A child pointer (NonNull) is a positive *)
(* integer, Option::None is 0, and a MaybeUninit slot that was never       *)
(* written holds Uninit.  The code reads array slots only below            *)
(* header.num_children, after the (checked) slice 0..num_children was      *)
(* taken, so an Uninit slot is never read.                                 *)
(*                                                                         *)
(* Every operation returns a record [panic, val]: panic is TRUE when the   *)
(* Rust call unwinds (assert!, slice index out of range, drain range out   *)
(* of range), and val is the returned value (for a &mut self method: the   *)
(* node as the call leaves it).                                            *)
(***************************************************************************)
EXTENDS Integers, Sequences, FiniteSets, TLC

VARIABLES node, before, call, ret

vars == <<node, before, call, ret>>

-----------------------------------------------------------------------------
(* Program constants *)

NUM_PREFIX_BYTES == 8

U8 == 0..255

None == 0

Uninit == -1

EMPTY == 48

Ok(v) == [panic |-> FALSE, val |-> v]

Panic(v) == [panic |-> TRUE, val |-> v]

upper_capacity(t) ==
    CASE t = "Node4" -> 4
      [] t = "Node16" -> 16
      [] t = "Node48" -> 48
      [] t = "Node256" -> 256
      [] t = "Leaf" -> 0

(* Option<T>: Some(v) is the one-element sequence, NoValue the empty one   *)
(* (None above is the absent child pointer of the node arrays).            *)
Some(v) == <<v>>

NoValue == <<>>

(* Result<T, E> and Option::unwrap / Result::unwrap *)
ResultOk(v) == [is_ok |-> TRUE, val |-> v]

ResultErr(e) == [is_ok |-> FALSE, val |-> e]

unwrap(r) == IF r.is_ok THEN Ok(r.val) ELSE Panic(r.val)

(* `t as u8`: the discriminants of enum NodeType *)
NodeType_as_u8(t) ==
    CASE t = "Node4" -> 0
      [] t = "Node16" -> 1
      [] t = "Node48" -> 2
      [] t = "Node256" -> 3
      [] t = "Leaf" -> 4

(* from_u8 without its last match arm *)
NodeType_from_u8_no_leaf(src) ==
    IF src = NodeType_as_u8("Node4") THEN Some("Node4")
    ELSE IF src = NodeType_as_u8("Node16") THEN Some("Node16")
    ELSE IF src = NodeType_as_u8("Node48") THEN Some("Node48")
    ELSE IF src = NodeType_as_u8("Node256") THEN Some("Node256")
    ELSE NoValue

(* NodeType::from_u8: the match arms in order *)
NodeType_from_u8(src) ==
    IF src = NodeType_as_u8("Node4") THEN Some("Node4")
    ELSE IF src = NodeType_as_u8("Node16") THEN Some("Node16")
    ELSE IF src = NodeType_as_u8("Node48") THEN Some("Node48")
    ELSE IF src = NodeType_as_u8("Node256") THEN Some("Node256")
    ELSE IF src = NodeType_as_u8("Leaf") THEN Some("Leaf")
    ELSE NoValue

-----------------------------------------------------------------------------
(* Tagged pointer: a machine word whose low bits, free by the 8-byte       *)
(* alignment of every node, carry the class tag.                           *)

ALIGNMENT == 8

(* from(concrete_ptr): checks alignment; a misaligned pointer aborts *)
TaggedPointer_from(pointer) ==
    IF pointer % ALIGNMENT # 0 THEN Panic(pointer) ELSE Ok(pointer)

TaggedPointer_set_data(tagged_ptr, data) ==
    (tagged_ptr - (tagged_ptr % ALIGNMENT)) + (data % ALIGNMENT)

TaggedPointer_to_data(tagged_ptr) == tagged_ptr % ALIGNMENT

(* cast::<N>() followed by the conversion into NonNull<N>: the address     *)
(* without the tag bits                                                    *)
TaggedPointer_cast(tagged_ptr) == tagged_ptr - (tagged_ptr % ALIGNMENT)

(* NodePtr<N>: the class N of the pointee and its address *)
NodePtr(N, addr) == [type |-> N, addr |-> addr]

(* OpaqueNodePtr::new::<N>(pointer) *)
OpaqueNodePtr_new(pointer) ==
    LET tagged_ptr == TaggedPointer_from(pointer.addr)
    IN  IF tagged_ptr.panic THEN Panic(0)
        ELSE Ok(TaggedPointer_set_data(tagged_ptr.val,
                                       NodeType_as_u8(pointer.type)))

(* is::<N>() comparing the tag the wrong way round *)
OpaqueNodePtr_is_at_least(p, N) ==
    TaggedPointer_to_data(p) >= NodeType_as_u8(N)

(* OpaqueNodePtr::is::<N>() *)
OpaqueNodePtr_is(p, N) ==
    TaggedPointer_to_data(p) = NodeType_as_u8(N)

(* OpaqueNodePtr::cast::<N>() *)
OpaqueNodePtr_cast(p, N) ==
    IF OpaqueNodePtr_is(p, N)
    THEN Some(NodePtr(N, TaggedPointer_cast(p)))
    ELSE NoValue

(* OpaqueNodePtr::node_type: from_u8(to_data().try_into().unwrap()).unwrap() *)
OpaqueNodePtr_node_type(p) ==
    LET data == TaggedPointer_to_data(p)
    IN  IF data > 255 THEN Panic("Leaf")
        ELSE LET t == NodeType_from_u8(data)
             IN  IF t = NoValue THEN Panic("Leaf") ELSE Ok(t[1])

(* OpaqueNodePtr::to_node_ptr: the variant of enum InnerNodePtr *)
OpaqueNodePtr_to_node_ptr(p) ==
    LET t == OpaqueNodePtr_node_type(p)
    IN  IF t.panic THEN Panic([variant |-> "LeafNode", ptr |-> NodePtr("Leaf", 0)])
        ELSE Ok([variant |-> CASE t.val = "Node4" -> "Node4"
                               [] t.val = "Node16" -> "Node16"
                               [] t.val = "Node48" -> "Node48"
                               [] t.val = "Node256" -> "Node256"
                               [] t.val = "Leaf" -> "LeafNode",
                 ptr |-> NodePtr(t.val, TaggedPointer_cast(p))])

(* NodePtr::to_opaque *)
NodePtr_to_opaque(np) == OpaqueNodePtr_new(np)

-----------------------------------------------------------------------------
(* Header *)

Header_empty == [num_children |-> 0, prefix |-> <<>>]

(* SmallVec::extend: appends every new byte; a SmallVec spills to the heap *)
(* when the inline capacity is exceeded, nothing is dropped.               *)
write_prefix(h, new_bytes) == Ok([h EXCEPT !.prefix = h.prefix \o new_bytes])

(* ltrim_prefix as a truncation: the bytes are taken from the end of the   *)
(* prefix instead of its start.                                            *)
ltrim_prefix_from_end(h, num_bytes) ==
    IF num_bytes > Len(h.prefix)
    THEN Panic(h)
    ELSE Ok([h EXCEPT !.prefix = SubSeq(h.prefix, 1, Len(h.prefix) - num_bytes)])

(* ltrim_prefix that panics as its documentation says: also when num_bytes *)
(* equals the prefix size.                                                 *)
ltrim_prefix_strict(h, num_bytes) ==
    IF num_bytes >= Len(h.prefix)
    THEN Panic(h)
    ELSE Ok([h EXCEPT !.prefix = SubSeq(h.prefix, num_bytes + 1, Len(h.prefix))])

(* SmallVec::drain(..num_bytes): panics when num_bytes > len, otherwise    *)
(* removes the first num_bytes elements.                                   *)
ltrim_prefix(h, num_bytes) ==
    IF num_bytes > Len(h.prefix)
    THEN Panic(h)
    ELSE Ok([h EXCEPT !.prefix = SubSeq(h.prefix, num_bytes + 1, Len(h.prefix))])

read_prefix(h) == h.prefix

prefix_size(h) == Len(h.prefix)

Min(a, b) == IF a < b THEN a ELSE b

(* match_prefix with `continue` in the place of `break`: counts every      *)
(* equal position, not only the leading ones.                              *)
RECURSIVE match_prefix_loop_continue(_, _, _, _)
match_prefix_loop_continue(inited_prefix, possible_key, index, num_matching_bytes) ==
    IF index >= (IF Len(inited_prefix) < Len(possible_key)
                 THEN Len(inited_prefix) ELSE Len(possible_key))
    THEN num_matching_bytes
    ELSE match_prefix_loop_continue(inited_prefix, possible_key, index + 1,
             IF inited_prefix[index + 1] # possible_key[index + 1]
             THEN num_matching_bytes ELSE num_matching_bytes + 1)

(* The for loop of match_prefix from position index on (0-based), with the *)
(* count accumulated so far.                                               *)
RECURSIVE match_prefix_loop(_, _, _, _)
match_prefix_loop(inited_prefix, possible_key, index, num_matching_bytes) ==
    IF index >= Min(Len(inited_prefix), Len(possible_key))
    THEN num_matching_bytes
    ELSE IF inited_prefix[index + 1] # possible_key[index + 1]
         THEN num_matching_bytes
         ELSE match_prefix_loop(inited_prefix, possible_key, index + 1,
                                num_matching_bytes + 1)

match_prefix(h, possible_key) ==
    Ok(match_prefix_loop(read_prefix(h), possible_key, 0, 0))

-----------------------------------------------------------------------------
(* Slice helpers *)

(* [T]::binary_search on the sorted slice keys[0..size): found with the    *)
(* index of the match, or not found with the index where x would be        *)
(* inserted to keep the order.                                             *)
RECURSIVE binary_search_loop(_, _, _, _)
binary_search_loop(keys, x, left, right) ==
    IF left >= right
    THEN [found |-> FALSE, index |-> left]
    ELSE LET mid == left + ((right - left) \div 2)
         IN  IF keys[mid] = x THEN [found |-> TRUE, index |-> mid]
             ELSE IF keys[mid] < x
                  THEN binary_search_loop(keys, x, mid + 1, right)
                  ELSE binary_search_loop(keys, x, left, mid)

(* binary_search that reports the end of the slice for every missing key *)
binary_search_append(keys, size, x) ==
    LET r == binary_search_loop(keys, x, 0, size)
    IN  IF r.found THEN r ELSE [found |-> FALSE, index |-> size]

binary_search(keys, size, x) == binary_search_loop(keys, x, 0, size)

(* copy_within that moves one element too few: the last element of the    *)
(* source range stays where it is.                                         *)
copy_within_short(arr, len, src_start, src_end, dest) ==
    IF src_start > src_end \/ src_end > len \/ dest > len - (src_end - src_start)
    THEN [panic |-> TRUE, val |-> arr]
    ELSE [panic |-> FALSE,
          val |-> [i \in DOMAIN arr |->
                     IF i >= dest /\ i < dest + (src_end - src_start) - 1
                     THEN arr[src_start + (i - dest)]
                     ELSE arr[i]]]

(* [T]::copy_within(src_start..src_end, dest) on an array of length len:   *)
(* panics when the source range or the destination range leaves the array. *)
copy_within(arr, len, src_start, src_end, dest) ==
    IF src_start > src_end \/ src_end > len \/ dest > len - (src_end - src_start)
    THEN Panic(arr)
    ELSE Ok([i \in DOMAIN arr |->
                IF i >= dest /\ i < dest + (src_end - src_start)
                THEN arr[src_start + (i - dest)]
                ELSE arr[i]])

(* keys.iter().enumerate() scanned for the first key equal to key_fragment *)
(* in keys[index..size); size when there is none.                          *)
RECURSIVE position(_, _, _, _)
position(keys, size, key_fragment, index) ==
    IF index >= size THEN size
    ELSE IF keys[index] = key_fragment THEN index
         ELSE position(keys, size, key_fragment, index + 1)

(* keys.iter().copied().zip(child_pointers.iter().copied()) over the first *)
(* size entries, as the sequence of the pairs it yields.                   *)
zip(keys, child_pointers, size) ==
    [i \in 1..size |-> <<keys[i - 1], child_pointers[i - 1]>>]

(* next_back written as next: the first pair in the place of the last.     *)
next_back_1_front(items) == IF Len(items) = 0 THEN 0 ELSE items[1][2]

(* iter.next()?.1 and iter.next_back()?.1 on the pairs an iterator yields  *)
next_1(items) == IF Len(items) = 0 THEN None ELSE items[1][2]

next_back_1(items) == IF Len(items) = 0 THEN None ELSE items[Len(items)][2]

-----------------------------------------------------------------------------
(* InnerNode4 *)

InnerNode4_empty ==
    [type |-> "Node4",
     header |-> Header_empty,
     child_pointers |-> [i \in 0..3 |-> Uninit],
     keys |-> [i \in 0..3 |-> Uninit]]

(* The slices keys[0..num_children] and child_pointers[0..num_children]    *)
(* are out of range, and the call panics, when num_children > 4.           *)
InnerNode4_initialized_portion(n) ==
    IF n.header.num_children > 4 THEN Panic(0) ELSE Ok(n.header.num_children)

InnerNode4_lookup_child_index(n, key_fragment) ==
    LET ip == InnerNode4_initialized_portion(n)
    IN  IF ip.panic THEN Panic(None)
        ELSE Ok(position(n.keys, ip.val, key_fragment, 0))

InnerNode4_iter(n) ==
    LET ip == InnerNode4_initialized_portion(n)
    IN  IF ip.panic THEN Panic(<<>>)
        ELSE Ok(zip(n.keys, n.child_pointers, ip.val))

(* lookup_child that does not see the child at the last position *)
InnerNode4_lookup_child_but_last(n, key_fragment) ==
    LET ci == InnerNode4_lookup_child_index(n, key_fragment)
    IN  IF ci.panic THEN Panic(None)
        ELSE IF ci.val >= n.header.num_children - 1 THEN Ok(None)
        ELSE Ok(n.child_pointers[ci.val])

InnerNode4_lookup_child(n, key_fragment) ==
    LET ci == InnerNode4_lookup_child_index(n, key_fragment)
    IN  IF ci.panic THEN Panic(None)
        ELSE IF ci.val = n.header.num_children THEN Ok(None)
        ELSE Ok(n.child_pointers[ci.val])

InnerNode4_write_child(n, key_fragment, child_pointer) ==
    LET ip == InnerNode4_initialized_portion(n)
        num_children == n.header.num_children
    IN  IF ip.panic THEN Panic(n)
        ELSE
        LET bs == binary_search(n.keys, ip.val, key_fragment)
            child_index == bs.index
        IN  IF bs.found
            THEN Ok([n EXCEPT !.child_pointers[child_index] = child_pointer])
            ELSE IF ~(child_index < 4) THEN Panic(n)
            ELSE
            LET shift == child_index # 4 - 1
                ks == IF shift
                      THEN copy_within(n.keys, 4, child_index, num_children,
                                       child_index + 1)
                      ELSE Ok(n.keys)
                cs == IF shift
                      THEN copy_within(n.child_pointers, 4, child_index,
                                       num_children, child_index + 1)
                      ELSE Ok(n.child_pointers)
            IN  IF ks.panic \/ cs.panic THEN Panic(n)
                ELSE Ok([n EXCEPT
                           !.keys = [ks.val EXCEPT ![child_index] = key_fragment],
                           !.child_pointers =
                               [cs.val EXCEPT ![child_index] = child_pointer],
                           !.header.num_children = num_children + 1])

InnerNode4_grow(n) ==
    LET header == n.header
    IN  IF header.num_children > 4 THEN Panic(n)
        ELSE Ok([type |-> "Node16",
                 header |-> header,
                 keys |-> [i \in 0..15 |->
                             IF i < header.num_children THEN n.keys[i] ELSE Uninit],
                 child_pointers |-> [i \in 0..15 |->
                             IF i < header.num_children
                             THEN n.child_pointers[i] ELSE Uninit]])

InnerNode4_first_child(n) ==
    LET it == InnerNode4_iter(n)
    IN  IF it.panic THEN Panic(None) ELSE Ok(next_1(it.val))

InnerNode4_last_child(n) ==
    LET it == InnerNode4_iter(n)
    IN  IF it.panic THEN Panic(None) ELSE Ok(next_back_1(it.val))

-----------------------------------------------------------------------------
(* InnerNode16 *)

InnerNode16_empty ==
    [type |-> "Node16",
     header |-> Header_empty,
     child_pointers |-> [i \in 0..15 |-> Uninit],
     keys |-> [i \in 0..15 |-> Uninit]]

InnerNode16_initialized_portion(n) ==
    IF n.header.num_children > 16 THEN Panic(0) ELSE Ok(n.header.num_children)

InnerNode16_lookup_child_index(n, key_fragment) ==
    LET ip == InnerNode16_initialized_portion(n)
    IN  IF ip.panic THEN Panic(None)
        ELSE Ok(position(n.keys, ip.val, key_fragment, 0))

InnerNode16_iter(n) ==
    LET ip == InnerNode16_initialized_portion(n)
    IN  IF ip.panic THEN Panic(<<>>)
        ELSE Ok(zip(n.keys, n.child_pointers, ip.val))

InnerNode16_lookup_child(n, key_fragment) ==
    LET ci == InnerNode16_lookup_child_index(n, key_fragment)
    IN  IF ci.panic THEN Panic(None)
        ELSE IF ci.val = n.header.num_children THEN Ok(None)
        ELSE Ok(n.child_pointers[ci.val])

InnerNode16_write_child(n, key_fragment, child_pointer) ==
    LET ip == InnerNode16_initialized_portion(n)
        num_children == n.header.num_children
    IN  IF ip.panic THEN Panic(n)
        ELSE
        LET bs == binary_search(n.keys, ip.val, key_fragment)
            child_index == bs.index
        IN  IF bs.found
            THEN Ok([n EXCEPT !.child_pointers[child_index] = child_pointer])
            ELSE IF ~(child_index < 16) THEN Panic(n)
            ELSE
            LET shift == child_index # 16 - 1
                ks == IF shift
                      THEN copy_within(n.keys, 16, child_index, num_children,
                                       child_index + 1)
                      ELSE Ok(n.keys)
                cs == IF shift
                      THEN copy_within(n.child_pointers, 16, child_index,
                                       num_children, child_index + 1)
                      ELSE Ok(n.child_pointers)
            IN  IF ks.panic \/ cs.panic THEN Panic(n)
                ELSE Ok([n EXCEPT
                           !.keys = [ks.val EXCEPT ![child_index] = key_fragment],
                           !.child_pointers =
                               [cs.val EXCEPT ![child_index] = child_pointer],
                           !.header.num_children = num_children + 1])

(* RestrictedNodeIndex::<LIMIT>::EMPTY *)
RestrictedNodeIndex_EMPTY(LIMIT) == LIMIT

(* u8::from(RestrictedNodeIndex): the wrapped byte *)
u8_from_RestrictedNodeIndex(src) == src

(* try_from accepting the limit itself *)
RestrictedNodeIndex_try_from_inclusive(LIMIT, value) ==
    IF value <= LIMIT
    THEN ResultOk(value % 256)
    ELSE ResultErr(<<LIMIT, value>>)

(* RestrictedNodeIndex::<LIMIT>::try_from(value): Ok(value as u8) or       *)
(* Err(TryFromByteError(LIMIT, value))                                     *)
RestrictedNodeIndex_try_from(LIMIT, value) ==
    IF value < LIMIT
    THEN ResultOk(value % 256)
    ELSE ResultErr(<<LIMIT, value>>)

(* The for loop of InnerNode16::grow over n16_keys[index..size): each key  *)
(* gets its position as index; try_from(index).unwrap() panics at 48.      *)
RECURSIVE InnerNode16_grow_loop(_, _, _, _)
InnerNode16_grow_loop(child_indices, n16_keys, size, index) ==
    IF index >= size THEN Ok(child_indices)
    ELSE LET r == unwrap(RestrictedNodeIndex_try_from(48, index))
         IN  IF r.panic THEN Panic(child_indices)
             ELSE InnerNode16_grow_loop(
                      [child_indices EXCEPT ![n16_keys[index]] = r.val],
                      n16_keys, size, index + 1)

InnerNode16_grow(n) ==
    LET header == n.header
        ip == InnerNode16_initialized_portion(n)
    IN  IF ip.panic THEN Panic(n)
        ELSE
        LET ci == InnerNode16_grow_loop([b \in U8 |-> EMPTY], n.keys, ip.val, 0)
        IN  IF ci.panic THEN Panic(n)
            ELSE Ok([type |-> "Node48",
                     header |-> header,
                     child_indices |-> ci.val,
                     child_pointers |-> [i \in 0..47 |->
                          IF i < header.num_children
                          THEN n.child_pointers[i] ELSE Uninit]])

InnerNode16_first_child(n) ==
    LET it == InnerNode16_iter(n)
    IN  IF it.panic THEN Panic(None) ELSE Ok(next_1(it.val))

InnerNode16_last_child(n) ==
    LET it == InnerNode16_iter(n)
    IN  IF it.panic THEN Panic(None) ELSE Ok(next_back_1(it.val))

-----------------------------------------------------------------------------
(* InnerNode48 *)

InnerNode48_empty ==
    [type |-> "Node48",
     header |-> Header_empty,
     child_indices |-> [b \in U8 |-> EMPTY],
     child_pointers |-> [i \in 0..47 |-> Uninit]]

(* The slice child_pointers[0..num_children] *)
InnerNode48_initialized_child_pointers(n) ==
    IF n.header.num_children > 48 THEN Panic(0) ELSE Ok(n.header.num_children)

(* InnerNode48Iter::next on the key bytes lo..hi, scanned upwards: the     *)
(* first key byte with a non-EMPTY index, 256 when there is none.  (The    *)
(* range is halved to keep the evaluation shallow; the lower half is       *)
(* scanned first, as the loop does.)                                       *)
RECURSIVE InnerNode48Iter_scan(_, _, _)
InnerNode48Iter_scan(child_indices, lo, hi) ==
    IF lo > hi THEN 256
    ELSE IF lo = hi THEN (IF child_indices[lo] = EMPTY THEN 256 ELSE lo)
    ELSE LET mid == lo + ((hi - lo) \div 2)
             lower == InnerNode48Iter_scan(child_indices, lo, mid)
         IN  IF lower # 256 THEN lower
             ELSE InnerNode48Iter_scan(child_indices, mid + 1, hi)

(* InnerNode48Iter::next_back on the key bytes lo..hi, scanned downwards:  *)
(* the last key byte with a non-EMPTY index, -1 when there is none.        *)
RECURSIVE InnerNode48Iter_scan_back(_, _, _)
InnerNode48Iter_scan_back(child_indices, lo, hi) ==
    IF lo > hi THEN -1
    ELSE IF lo = hi THEN (IF child_indices[lo] = EMPTY THEN -1 ELSE lo)
    ELSE LET mid == lo + ((hi - lo) \div 2)
             upper == InnerNode48Iter_scan_back(child_indices, mid + 1, hi)
         IN  IF upper # -1 THEN upper
             ELSE InnerNode48Iter_scan_back(child_indices, lo, mid)

(* The pair InnerNode48Iter yields at key byte key_fragment; indexing the  *)
(* initialized slice child_pointers[0..size] panics at size and beyond.    *)
InnerNode48Iter_item(n, size, key_fragment) ==
    LET child_index == n.child_indices[key_fragment]
    IN  IF child_index >= size THEN Panic(<<key_fragment, None>>)
        ELSE Ok(<<key_fragment, n.child_pointers[child_index]>>)

(* InnerNode48Iter::next called until it returns None, from key byte       *)
(* key_fragment on: the pairs it yields, in the order it yields them.      *)
RECURSIVE InnerNode48Iter_next(_, _, _, _)
InnerNode48Iter_next(n, size, key_fragment, items) ==
    LET found == InnerNode48Iter_scan(n.child_indices, key_fragment, 255)
    IN  IF found = 256 THEN Ok(items)
        ELSE LET item == InnerNode48Iter_item(n, size, found)
             IN  IF item.panic THEN Panic(items)
                 ELSE InnerNode48Iter_next(n, size, found + 1,
                                           Append(items, item.val))

InnerNode48_iter(n) ==
    LET cp == InnerNode48_initialized_child_pointers(n)
    IN  IF cp.panic THEN Panic(<<>>)
        ELSE InnerNode48Iter_next(n, cp.val, 0, <<>>)

InnerNode48_lookup_child(n, key_fragment) ==
    LET index == n.child_indices[key_fragment]
        cp == InnerNode48_initialized_child_pointers(n)
    IN  IF cp.panic THEN Panic(None)
        ELSE IF index # EMPTY
             THEN IF index >= cp.val THEN Panic(None)
                  ELSE Ok(n.child_pointers[index])
             ELSE Ok(None)

(* write_child that stores a new child without counting it *)
InnerNode48_write_child_no_count(n, key_fragment, child_pointer) ==
    LET key_fragment_idx == key_fragment
    IN  IF n.child_indices[key_fragment_idx] = EMPTY
        THEN LET child_index == n.header.num_children
             IN  IF ~(child_index < 48) THEN Panic(n)
                 ELSE LET r == unwrap(RestrictedNodeIndex_try_from(48, child_index))
                      IN  IF r.panic THEN Panic(n)
                          ELSE Ok([n EXCEPT
                                !.child_indices[key_fragment_idx] = r.val,
                                !.child_pointers[child_index] = child_pointer])
        ELSE LET child_index == n.child_indices[key_fragment_idx]
             IN  Ok([n EXCEPT !.child_pointers[child_index] = child_pointer])

InnerNode48_write_child(n, key_fragment, child_pointer) ==
    LET key_fragment_idx == key_fragment
    IN  IF n.child_indices[key_fragment_idx] = EMPTY
        THEN LET child_index == n.header.num_children
             IN  IF ~(child_index < 48) THEN Panic(n)
                 ELSE LET r == unwrap(RestrictedNodeIndex_try_from(48, child_index))
                      IN  IF r.panic THEN Panic(n)
                          ELSE Ok([n EXCEPT
                                !.child_indices[key_fragment_idx] = r.val,
                                !.header.num_children = child_index + 1,
                                !.child_pointers[child_index] = child_pointer])
        ELSE LET child_index == n.child_indices[key_fragment_idx]
             IN  Ok([n EXCEPT !.child_pointers[child_index] = child_pointer])

(* The for loop of InnerNode48::grow over the pairs self.iter() yields,    *)
(* from the index-th pair (1-based) on.                                    *)
RECURSIVE InnerNode48_grow_loop(_, _, _)
InnerNode48_grow_loop(child_pointers, items, index) ==
    IF index > Len(items) THEN child_pointers
    ELSE InnerNode48_grow_loop(
             [child_pointers EXCEPT ![items[index][1]] = items[index][2]],
             items, index + 1)

InnerNode48_grow(n) ==
    LET header == n.header
        it == InnerNode48_iter(n)
    IN  IF it.panic THEN Panic(n)
        ELSE Ok([type |-> "Node256",
                 header |-> header,
                 child_pointers |->
                     InnerNode48_grow_loop([b \in U8 |-> None], it.val, 1)])

InnerNode48_first_child(n) ==
    LET cp == InnerNode48_initialized_child_pointers(n)
        found == InnerNode48Iter_scan(n.child_indices, 0, 255)
    IN  IF cp.panic THEN Panic(None)
        ELSE IF found = 256 THEN Ok(None)
        ELSE LET item == InnerNode48Iter_item(n, cp.val, found)
             IN  IF item.panic THEN Panic(None) ELSE Ok(item.val[2])

InnerNode48_last_child(n) ==
    LET cp == InnerNode48_initialized_child_pointers(n)
        found == InnerNode48Iter_scan_back(n.child_indices, 0, 255)
    IN  IF cp.panic THEN Panic(None)
        ELSE IF found = -1 THEN Ok(None)
        ELSE LET item == InnerNode48Iter_item(n, cp.val, found)
             IN  IF item.panic THEN Panic(None) ELSE Ok(item.val[2])

-----------------------------------------------------------------------------
(* InnerNode256 *)

InnerNode256_empty ==
    [type |-> "Node256",
     header |-> Header_empty,
     child_pointers |-> [b \in U8 |-> None]]

(* child_pointers.iter().enumerate().filter_map(..) over the key bytes     *)
(* lo..hi: the pairs (key byte, child) of the Some entries in ascending    *)
(* order of the index.  (The range is halved to keep the evaluation        *)
(* shallow.)                                                               *)
RECURSIVE InnerNode256_iter_range(_, _, _)
InnerNode256_iter_range(child_pointers, lo, hi) ==
    IF lo > hi THEN <<>>
    ELSE IF lo = hi
         THEN (IF child_pointers[lo] = None THEN <<>>
               ELSE << <<lo, child_pointers[lo]>> >>)
    ELSE LET mid == lo + ((hi - lo) \div 2)
         IN  InnerNode256_iter_range(child_pointers, lo, mid)
                 \o InnerNode256_iter_range(child_pointers, mid + 1, hi)

InnerNode256_iter(n) == Ok(InnerNode256_iter_range(n.child_pointers, 0, 255))

InnerNode256_lookup_child(n, key_fragment) == Ok(n.child_pointers[key_fragment])

InnerNode256_write_child(n, key_fragment, child_pointer) ==
    LET key_fragment_idx == key_fragment
        existing_pointer == n.child_pointers[key_fragment_idx]
    IN  Ok([n EXCEPT
              !.child_pointers[key_fragment_idx] = child_pointer,
              !.header.num_children =
                  IF existing_pointer = None THEN @ + 1 ELSE @])

InnerNode256_grow(n) == Panic(n)

InnerNode256_first_child(n) == Ok(next_1(InnerNode256_iter(n).val))

InnerNode256_last_child(n) == Ok(next_back_1(InnerNode256_iter(n).val))

-----------------------------------------------------------------------------
(* The InnerNode trait, dispatched on the node's class *)

lookup_child(n, key_fragment) ==
    CASE n.type = "Node4" -> InnerNode4_lookup_child(n, key_fragment)
      [] n.type = "Node16" -> InnerNode16_lookup_child(n, key_fragment)
      [] n.type = "Node48" -> InnerNode48_lookup_child(n, key_fragment)
      [] n.type = "Node256" -> InnerNode256_lookup_child(n, key_fragment)

write_child(n, key_fragment, child_pointer) ==
    CASE n.type = "Node4" -> InnerNode4_write_child(n, key_fragment, child_pointer)
      [] n.type = "Node16" -> InnerNode16_write_child(n, key_fragment, child_pointer)
      [] n.type = "Node48" -> InnerNode48_write_child(n, key_fragment, child_pointer)
      [] n.type = "Node256" -> InnerNode256_write_child(n, key_fragment, child_pointer)

grow(n) ==
    CASE n.type = "Node4" -> InnerNode4_grow(n)
      [] n.type = "Node16" -> InnerNode16_grow(n)
      [] n.type = "Node48" -> InnerNode48_grow(n)
      [] n.type = "Node256" -> InnerNode256_grow(n)

first_child(n) ==
    CASE n.type = "Node4" -> InnerNode4_first_child(n)
      [] n.type = "Node16" -> InnerNode16_first_child(n)
      [] n.type = "Node48" -> InnerNode48_first_child(n)
      [] n.type = "Node256" -> InnerNode256_first_child(n)

last_child(n) ==
    CASE n.type = "Node4" -> InnerNode4_last_child(n)
      [] n.type = "Node16" -> InnerNode16_last_child(n)
      [] n.type = "Node48" -> InnerNode48_last_child(n)
      [] n.type = "Node256" -> InnerNode256_last_child(n)

iter(n) ==
    CASE n.type = "Node4" -> InnerNode4_iter(n)
      [] n.type = "Node16" -> InnerNode16_iter(n)
      [] n.type = "Node48" -> InnerNode48_iter(n)
      [] n.type = "Node256" -> InnerNode256_iter(n)

is_full(n) == Ok(upper_capacity(n.type) >= n.header.num_children)

empty(t) ==
    CASE t = "Node4" -> InnerNode4_empty
      [] t = "Node16" -> InnerNode16_empty
      [] t = "Node48" -> InnerNode48_empty
      [] t = "Node256" -> InnerNode256_empty

-----------------------------------------------------------------------------
(* Bounds and inputs *)

(* A starting node is empty or holds at most Slack children fewer than its *)
(* class capacity, and grow is called on a node that holds at most Slack   *)
(* children fewer than its class capacity.                                 *)
Slack == 1

(* Longest prefix a header is driven to *)
MaxPrefix == 9

(* Longest slice handed to write_prefix *)
MaxNewBytes == 2

(* Longest key handed to match_prefix *)
MaxKeyLen == 3

NodeTypes == {"Node4", "Node16", "Node48", "Node256"}

(* Key bytes and child pointers handed to the operations of a node of      *)
(* class t.  Among the key bytes are some that the starting nodes hold and *)
(* some they do not, below, between and above the held ones; an InnerNode4 *)
(* gets one key byte more than it has room for.                            *)
KeyFragments(t) ==
    CASE t = "Node4" -> {0, 48, 100, 235, 255}
      [] t = "Node16" -> {0, 48, 235, 255}
      [] t = "Node48" -> {0, 48, 235, 255}
      [] t = "Node256" -> {0, 48, 230, 255}

ChildPointers == {1, 2}

PrefixBytes == {7, 9}

(* The prefix a starting node carries: the empty node has the empty       *)
(* header, a filled one had two bytes written to its prefix.               *)
InitPrefix(m) == IF m = 0 THEN <<>> ELSE <<7, 9>>

SeqsUpTo(S, n) == UNION {[1..k -> S] : k \in 0..n}

(* The i-th key byte and child pointer a starting node was filled with:    *)
(* 256 distinct bytes, not in ascending order.                             *)
FillKey(i) == (i * 37 + 11) % 256

FillPtr(i) == 1000 + i

(* The node n after write_child(FillKey(j), FillPtr(j)) for j = i..m-1 in  *)
(* this order.  The range is halved, and the first half is evaluated       *)
(* before the second is started, to keep the evaluation shallow.           *)
RECURSIVE FillFrom(_, _, _)
FillFrom(n, i, m) ==
    IF i >= m THEN n
    ELSE IF m = i + 1 THEN write_child(n, FillKey(i), FillPtr(i)).val
    ELSE LET mid == i + ((m - i) \div 2)
             half == FillFrom(n, i, mid)
         IN  IF half.header.num_children >= 0 THEN FillFrom(half, mid, m) ELSE half

Fill(t, m) == FillFrom(empty(t), 0, m)

PreFill(t) ==
    {m \in 0..upper_capacity(t) : m = 0 \/ m >= upper_capacity(t) - Slack}

-----------------------------------------------------------------------------
(* The node operations as steps.  node is the node operated on, before the *)
(* node as it was when the last call was made, call the last call (its     *)
(* name, its integer arguments and its byte slice argument) and ret what   *)
(* it returned: whether it panicked and, by the type of the result, val (a *)
(* child pointer or a count), flag (a bool) or items (the pairs of an      *)
(* iterator).                                                              *)

Called(name, args, bytes) == [name |-> name, args |-> args, bytes |-> bytes]

Returned(panic, val, flag, items) ==
    [panic |-> panic, val |-> val, flag |-> flag, items |-> items]

ReturnedUnit(r) == Returned(r.panic, 0, FALSE, <<>>)

ReturnedVal(r) == Returned(r.panic, r.val, FALSE, <<>>)

ReturnedFlag(r) == Returned(r.panic, 0, r.val, <<>>)

ReturnedItems(r) == Returned(r.panic, 0, FALSE, r.val)

Init ==
    /\ \E t \in NodeTypes :
          \E m \in PreFill(t) :
             node = [Fill(t, m) EXCEPT !.header.prefix = InitPrefix(m)]
    /\ before = node
    /\ call = Called("empty", <<>>, <<>>)
    /\ ret = ReturnedUnit(Ok(0))

WriteChild(key_fragment, child_pointer) ==
    LET r == write_child(node, key_fragment, child_pointer)
    IN  /\ node' = r.val
        /\ before' = node
        /\ call' = Called("write_child", <<key_fragment, child_pointer>>, <<>>)
        /\ ret' = ReturnedUnit(r)

LookupChild(key_fragment) ==
    /\ ret' = ReturnedVal(lookup_child(node, key_fragment))
    /\ call' = Called("lookup_child", <<key_fragment>>, <<>>)
    /\ before' = node
    /\ UNCHANGED node

Grow ==
    LET r == grow(node)
    IN  /\ node.header.num_children >= upper_capacity(node.type) - Slack
        /\ node' = r.val
        /\ before' = node
        /\ call' = Called("grow", <<>>, <<>>)
        /\ ret' = ReturnedUnit(r)

IsFull ==
    /\ ret' = ReturnedFlag(is_full(node))
    /\ call' = Called("is_full", <<>>, <<>>)
    /\ before' = node
    /\ UNCHANGED node

FirstChild ==
    /\ ret' = ReturnedVal(first_child(node))
    /\ call' = Called("first_child", <<>>, <<>>)
    /\ before' = node
    /\ UNCHANGED node

LastChild ==
    /\ ret' = ReturnedVal(last_child(node))
    /\ call' = Called("last_child", <<>>, <<>>)
    /\ before' = node
    /\ UNCHANGED node

Iter ==
    /\ ret' = ReturnedItems(iter(node))
    /\ call' = Called("iter", <<>>, <<>>)
    /\ before' = node
    /\ UNCHANGED node

Next ==
    \/ \E key_fragment \in KeyFragments(node.type), child_pointer \in ChildPointers :
          WriteChild(key_fragment, child_pointer)
    \/ \E key_fragment \in KeyFragments(node.type) : LookupChild(key_fragment)
    \/ Grow
    \/ IsFull
    \/ FirstChild
    \/ LastChild
    \/ Iter

Spec == Init /\ [][Next]_vars

-----------------------------------------------------------------------------
(* The header operations as steps, on the header of an InnerNode4 *)

InitHeader ==
    /\ node = InnerNode4_empty
    /\ before = node
    /\ call = Called("empty", <<>>, <<>>)
    /\ ret = ReturnedUnit(Ok(0))

WritePrefix(new_bytes) ==
    LET r == write_prefix(node.header, new_bytes)
    IN  /\ Len(node.header.prefix) + Len(new_bytes) <= MaxPrefix
        /\ node' = [node EXCEPT !.header = r.val]
        /\ before' = node
        /\ call' = Called("write_prefix", <<>>, new_bytes)
        /\ ret' = ReturnedUnit(r)

LtrimPrefix(num_bytes) ==
    LET r == ltrim_prefix(node.header, num_bytes)
    IN  /\ node' = [node EXCEPT !.header = r.val]
        /\ before' = node
        /\ call' = Called("ltrim_prefix", <<num_bytes>>, <<>>)
        /\ ret' = ReturnedUnit(r)

MatchPrefix(possible_key) ==
    /\ ret' = ReturnedVal(match_prefix(node.header, possible_key))
    /\ call' = Called("match_prefix", <<>>, possible_key)
    /\ before' = node
    /\ UNCHANGED node

NextHeader ==
    \/ \E new_bytes \in SeqsUpTo(PrefixBytes, MaxNewBytes) : WritePrefix(new_bytes)
    \/ \E num_bytes \in 0..(MaxPrefix + 1) : LtrimPrefix(num_bytes)
    \/ \E possible_key \in SeqsUpTo(PrefixBytes, MaxKeyLen) : MatchPrefix(possible_key)

SpecHeader == InitHeader /\ [][NextHeader]_vars

-----------------------------------------------------------------------------
(* Tags, opaque pointers and restricted indices: node holds a typed        *)
(* pointer and the opaque pointer built from it.                           *)

(* the pointees sit at the first MaxAddr aligned addresses *)
MaxAddr == 2

(* try_from is given every value up to MaxValue *)
MaxValue == 257

AllNodeTypes == {"Node4", "Node16", "Node48", "Node256", "Leaf"}

Addresses == {ALIGNMENT * k : k \in 1..MaxAddr}

Limits == {1, 48, 255}

Pointing(pointer, r) == [pointer |-> pointer, opaque |-> r.val]

InitPointer ==
    /\ \E N \in AllNodeTypes : \E addr \in Addresses :
          node = Pointing(NodePtr(N, addr), OpaqueNodePtr_new(NodePtr(N, addr)))
    /\ before = node
    /\ call = Called("new", <<>>, <<>>)
    /\ ret = ReturnedUnit(Ok(0))

New(N, addr) ==
    LET r == OpaqueNodePtr_new(NodePtr(N, addr))
    IN  /\ node' = Pointing(NodePtr(N, addr), r)
        /\ before' = node
        /\ call' = Called("new", <<NodeType_as_u8(N), addr>>, <<>>)
        /\ ret' = ReturnedUnit(r)

ToOpaque(N, addr) ==
    LET r == NodePtr_to_opaque(NodePtr(N, addr))
    IN  /\ node' = Pointing(NodePtr(N, addr), r)
        /\ before' = node
        /\ call' = Called("to_opaque", <<NodeType_as_u8(N), addr>>, <<>>)
        /\ ret' = ReturnedUnit(r)

FromU8(src) ==
    /\ ret' = Returned(FALSE, 0, FALSE, NodeType_from_u8(src))
    /\ call' = Called("from_u8", <<src>>, <<>>)
    /\ before' = node
    /\ UNCHANGED node

NodeTypeOf ==
    LET r == OpaqueNodePtr_node_type(node.opaque)
    IN  /\ ret' = Returned(r.panic, 0, FALSE, <<r.val>>)
        /\ call' = Called("node_type", <<>>, <<>>)
        /\ before' = node
        /\ UNCHANGED node

Is(M) ==
    /\ ret' = Returned(FALSE, 0, OpaqueNodePtr_is(node.opaque, M), <<>>)
    /\ call' = Called("is", <<NodeType_as_u8(M)>>, <<>>)
    /\ before' = node
    /\ UNCHANGED node

Cast(M) ==
    /\ ret' = Returned(FALSE, 0, FALSE, OpaqueNodePtr_cast(node.opaque, M))
    /\ call' = Called("cast", <<NodeType_as_u8(M)>>, <<>>)
    /\ before' = node
    /\ UNCHANGED node

ToNodePtr ==
    LET r == OpaqueNodePtr_to_node_ptr(node.opaque)
    IN  /\ ret' = Returned(r.panic, 0, FALSE, <<r.val>>)
        /\ call' = Called("to_node_ptr", <<>>, <<>>)
        /\ before' = node
        /\ UNCHANGED node

TryFrom(LIMIT, value) ==
    LET r == RestrictedNodeIndex_try_from(LIMIT, value)
    IN  /\ ret' = IF r.is_ok
                  THEN Returned(FALSE, u8_from_RestrictedNodeIndex(r.val), TRUE, <<>>)
                  ELSE Returned(FALSE, 0, FALSE, r.val)
        /\ call' = Called("try_from", <<LIMIT, value>>, <<>>)
        /\ before' = node
        /\ UNCHANGED node

NextPointer ==
    \/ \E N \in AllNodeTypes : \E addr \in Addresses : New(N, addr)
    \/ \E N \in AllNodeTypes : \E addr \in Addresses : ToOpaque(N, addr)
    \/ \E src \in U8 : FromU8(src)
    \/ NodeTypeOf
    \/ \E M \in AllNodeTypes : Is(M)
    \/ \E M \in AllNodeTypes : Cast(M)
    \/ ToNodePtr
    \/ \E LIMIT \in Limits : \E value \in 0..MaxValue : TryFrom(LIMIT, value)

SpecPointer == InitPointer /\ [][NextPointer]_vars

-----------------------------------------------------------------------------
(* Leaves and the heap of nodes *)

(* LeafNode::new *)
LeafNode_new(key, value) ==
    [type |-> "Leaf", prefix |-> <<>>, value |-> value, key |-> key]

(* matches_key comparing the lengths only *)
LeafNode_matches_key_length(leaf, possible_key) ==
    Len(leaf.key) = Len(possible_key)

(* LeafNode::matches_key *)
LeafNode_matches_key(leaf, possible_key) ==
    /\ Len(leaf.key) = Len(possible_key)
    /\ \A i \in 1..Len(possible_key) : leaf.key[i] = possible_key[i]

(* The heap: heap[k] is the block at address ALIGNMENT * k, live the       *)
(* blocks allocated and not deallocated, double_free whether a block was   *)
(* deallocated that was not live, max_blocks the largest number of blocks  *)
(* that were live at a time.                                               *)
Freed == [type |-> "Freed"]

Memory_empty ==
    [heap |-> <<>>, live |-> {}, double_free |-> FALSE, max_blocks |-> 0]

IndexOf(p) == TaggedPointer_cast(p) \div ALIGNMENT

NodeAt(mem, p) == mem.heap[IndexOf(p)]

StoreAt(mem, p, n) == [mem EXCEPT !.heap[IndexOf(p)] = n]

(* NodePtr::allocate_node: Box::new at the lowest free address *)
allocate_node(mem, n) ==
    LET free == {k \in 1..Len(mem.heap) : k \notin mem.live}
        idx == IF free = {} THEN Len(mem.heap) + 1
               ELSE CHOOSE k \in free : \A j \in free : k <= j
    IN  [mem |-> [mem EXCEPT
                    !.heap = IF idx > Len(mem.heap) THEN Append(mem.heap, n)
                             ELSE [mem.heap EXCEPT ![idx] = n],
                    !.live = mem.live \cup {idx},
                    !.max_blocks = IF Cardinality(mem.live) + 1 > mem.max_blocks
                                   THEN Cardinality(mem.live) + 1
                                   ELSE mem.max_blocks],
         ptr |-> NodePtr(n.type, ALIGNMENT * idx)]

(* deallocate_node that rebuilds the Box of a leaf and forgets it: the     *)
(* block stays allocated                                                   *)
deallocate_node_forget_leaf(mem, p) ==
    IF IndexOf(p) \notin mem.live
    THEN [mem EXCEPT !.double_free = TRUE]
    ELSE IF OpaqueNodePtr_is(p, "Leaf") THEN mem
    ELSE [mem EXCEPT !.live = mem.live \ {IndexOf(p)},
                     !.heap[IndexOf(p)] = Freed]

(* deallocate_node that rebuilds the Box and forgets it: the block stays   *)
(* allocated                                                               *)
deallocate_node_forget(mem, p) ==
    IF IndexOf(p) \notin mem.live
    THEN [mem EXCEPT !.double_free = TRUE]
    ELSE mem

(* NodePtr::deallocate_node: Box::from_raw, dropped *)
deallocate_node(mem, p) ==
    IF IndexOf(p) \notin mem.live
    THEN [mem EXCEPT !.double_free = TRUE]
    ELSE [mem EXCEPT !.live = mem.live \ {IndexOf(p)},
                     !.heap[IndexOf(p)] = Freed]

-----------------------------------------------------------------------------
(* Tree operations: search and insert *)

Miss == Ok(NoValue)

(* where the loop of search stands: at the node cur with depth bytes of    *)
(* the query consumed, or finished with a result                           *)
Searching(cur, depth) == [done |-> FALSE, cur |-> cur, depth |-> depth, result |-> Miss]

SearchDone(result) == [done |-> TRUE, cur |-> None, depth |-> 0, result |-> result]

(* one turn of the loop of search *)
search_step(mem, query, s) ==
    IF s.done THEN s
    ELSE IF OpaqueNodePtr_is(s.cur, "Leaf")
    THEN IF LeafNode_matches_key(NodeAt(mem, s.cur), query)
         THEN SearchDone(Ok(Some(s.cur))) ELSE SearchDone(Miss)
    ELSE LET n == NodeAt(mem, s.cur)
             h == n.header
             stored == prefix_size(h)
             m == match_prefix(h, SubSeq(query, s.depth + 1, Len(query))).val
         IN  IF m < Min(stored, Len(query) - s.depth) THEN SearchDone(Miss)
             ELSE IF s.depth + stored > Len(query) THEN SearchDone(Miss)
             ELSE IF s.depth + stored = Len(query) THEN SearchDone(Miss)
             ELSE LET child == lookup_child(n, query[s.depth + stored + 1])
                  IN  IF child.panic THEN SearchDone(Panic(NoValue))
                      ELSE IF child.val = None THEN SearchDone(Miss)
                      ELSE Searching(child.val, s.depth + stored + 1)

(* the loop of search, for at most turns turns.  (The turns are halved,    *)
(* and the first half is taken, to the value half, before the second is    *)
(* started from it, to keep the evaluation shallow.)                       *)
RECURSIVE search_loop(_, _, _, _)
search_loop(mem, query, s, turns) ==
    IF s.done \/ turns <= 0 THEN s
    ELSE IF turns = 1 THEN search_step(mem, query, s)
    ELSE CHOOSE end \in
             {search_loop(mem, query, half, turns - (turns \div 2)) :
                  half \in {search_loop(mem, query, s, turns \div 2)}} : TRUE

(* search: every turn but the last consumes a byte of the key *)
search(mem, root, key) ==
    IF root = None THEN Miss
    ELSE search_loop(mem, key, Searching(root, 0), Len(key) + 1).result

(* the number of leading bytes two byte strings share *)
common_prefix_len(a, b) ==
    CHOOSE m \in 0..Min(Len(a), Len(b)) :
        /\ \A i \in 1..m : a[i] = b[i]
        /\ m = Min(Len(a), Len(b)) \/ a[m + 1] # b[m + 1]

(* what an insert into a subtree returns: the memory, the pointer that     *)
(* now stands for the subtree, and the value that was overwritten          *)
Inserted(mem, ptr, previous) ==
    [panic |-> FALSE, mem |-> mem, ptr |-> ptr, previous |-> previous]

InsertPanic(mem, ptr) ==
    [panic |-> TRUE, mem |-> mem, ptr |-> ptr, previous |-> NoValue]

(* a new N4 with the given prefix over two children, as insert builds it   *)
(* when a leaf is expanded or a prefix split: the new leaf is allocated,   *)
(* both children are written, the N4 is allocated                          *)
insert_branch(mem, prefix, old_byte, old_ptr, new_byte, key, value) ==
    LET leaf == allocate_node(mem, LeafNode_new(key, value))
        h == write_prefix(Header_empty, prefix)
        n0 == [InnerNode4_empty EXCEPT !.header = h.val]
        n1 == write_child(n0, old_byte, old_ptr)
        n2 == write_child(n1.val, new_byte, NodePtr_to_opaque(leaf.ptr).val)
        n4 == allocate_node(leaf.mem, n2.val)
    IN  IF n1.panic \/ n2.panic THEN InsertPanic(leaf.mem, old_ptr)
        ELSE Inserted(n4.mem, NodePtr_to_opaque(n4.ptr).val, NoValue)

(* insert reaching a leaf at depth *)
insert_at_leaf(mem, cur, key, value, depth) ==
    LET leaf == NodeAt(mem, cur)
    IN  IF LeafNode_matches_key(leaf, key)
        THEN Inserted(StoreAt(mem, cur, [leaf EXCEPT !.value = value]),
                      cur, Some(leaf.value))
        ELSE LET lcp == common_prefix_len(
                            SubSeq(leaf.key, depth + 1, Len(leaf.key)),
                            SubSeq(key, depth + 1, Len(key)))
                 at == depth + lcp + 1
             IN  IF at > Len(leaf.key) \/ at > Len(key)
                 THEN InsertPanic(mem, cur)
                 ELSE insert_branch(mem, SubSeq(key, depth + 1, depth + lcp),
                                    leaf.key[at], cur, key[at], key, value)

(* insert diverging from the prefix of the inner node cur at offset d *)
insert_split_prefix(mem, cur, key, value, depth, d) ==
    LET n == NodeAt(mem, cur)
        old_prefix == read_prefix(n.header)
        trimmed == ltrim_prefix(n.header, d + 1)
    IN  IF depth + d + 1 > Len(key) \/ trimmed.panic
        THEN InsertPanic(mem, cur)
        ELSE insert_branch(StoreAt(mem, cur, [n EXCEPT !.header = trimmed.val]),
                           SubSeq(old_prefix, 1, d), old_prefix[d + 1], cur,
                           key[depth + d + 1], key, value)

(* insert adding a new leaf under byte b to the inner node cur: grow       *)
(* first when the node is full                                             *)
insert_new_child(mem, cur, b, key, value) ==
    LET n == NodeAt(mem, cur)
        leaf == allocate_node(mem, LeafNode_new(key, value))
        leaf_ptr == NodePtr_to_opaque(leaf.ptr).val
    IN  IF is_full(n).val
        THEN LET grown == grow(n)
             IN  IF grown.panic THEN InsertPanic(leaf.mem, cur)
                 ELSE LET w == write_child(grown.val, b, leaf_ptr)
                          new_node == allocate_node(leaf.mem, w.val)
                      IN  IF w.panic THEN InsertPanic(leaf.mem, cur)
                          ELSE Inserted(deallocate_node(new_node.mem, cur),
                                        NodePtr_to_opaque(new_node.ptr).val,
                                        NoValue)
        ELSE LET w == write_child(n, b, leaf_ptr)
             IN  IF w.panic THEN InsertPanic(leaf.mem, cur)
                 ELSE Inserted(StoreAt(leaf.mem, cur, w.val), cur, NoValue)

(* where the descent of insert stands: at the node cur, the child of       *)
(* parent under the key byte byte (parent None at the root), with depth    *)
(* bytes of the key consumed; at tells what the descent has found there    *)
(* ("descend" while it goes on) and offset where the key leaves the        *)
(* prefix of cur                                                           *)
Descent(cur, parent, byte, depth, at, offset) ==
    [cur |-> cur, parent |-> parent, byte |-> byte, depth |-> depth,
     at |-> at, offset |-> offset]

(* one turn of the descent of insert *)
insert_step(mem, key, s) ==
    IF s.at # "descend" THEN s
    ELSE IF OpaqueNodePtr_is(s.cur, "Leaf") THEN [s EXCEPT !.at = "leaf"]
    ELSE LET n == NodeAt(mem, s.cur)
             stored == prefix_size(n.header)
             m == match_prefix(n.header, SubSeq(key, s.depth + 1, Len(key))).val
         IN  IF m < stored THEN [s EXCEPT !.at = "split", !.offset = m]
             ELSE IF s.depth + stored + 1 > Len(key) THEN [s EXCEPT !.at = "panic"]
             ELSE LET b == key[s.depth + stored + 1]
                      child == lookup_child(n, b)
                  IN  IF child.panic THEN [s EXCEPT !.at = "panic"]
                      ELSE IF child.val = None
                      THEN [s EXCEPT !.at = "new_child", !.offset = stored]
                      ELSE Descent(child.val, s.cur, b, s.depth + stored + 1,
                                   "descend", 0)

(* the descent of insert, for at most turns turns.  (The turns are halved, *)
(* and the first half is taken, to the value half, before the second is    *)
(* started from it, to keep the evaluation shallow.)                       *)
RECURSIVE insert_loop(_, _, _, _)
insert_loop(mem, key, s, turns) ==
    IF s.at # "descend" \/ turns <= 0 THEN s
    ELSE IF turns = 1 THEN insert_step(mem, key, s)
    ELSE CHOOSE end \in
             {insert_loop(mem, key, half, turns - (turns \div 2)) :
                  half \in {insert_loop(mem, key, s, turns \div 2)}} : TRUE

(* insert where the descent s has ended: what stands for the subtree at    *)
(* s.cur afterwards                                                        *)
insert_found(mem, s, key, value) ==
    CASE s.at = "leaf" -> insert_at_leaf(mem, s.cur, key, value, s.depth)
      [] s.at = "split" ->
             insert_split_prefix(mem, s.cur, key, value, s.depth, s.offset)
      [] s.at = "new_child" ->
             insert_new_child(mem, s.cur, key[s.depth + s.offset + 1], key, value)
      [] OTHER -> InsertPanic(mem, s.cur)

(* patch the pointer r.ptr that stands for the subtree at s.cur into the   *)
(* parent, or make it the root                                             *)
insert_patch(root, s, r) ==
    IF r.panic THEN [r EXCEPT !.ptr = root]
    ELSE IF s.parent = None THEN r
    ELSE IF r.ptr = s.cur THEN [r EXCEPT !.ptr = root]
    ELSE LET w == write_child(NodeAt(r.mem, s.parent), s.byte, r.ptr)
         IN  IF w.panic THEN InsertPanic(r.mem, root)
             ELSE Inserted(StoreAt(r.mem, s.parent, w.val), root, r.previous)

(* insert into the tree under root: descend to s, insert there with the    *)
(* result r, and patch it into the parent; every turn of the descent but   *)
(* the last consumes a byte of the key                                     *)
insert_at(mem, root, key, value) ==
    CHOOSE out \in
        {insert_patch(root, sr[1], sr[2]) :
             sr \in {<<s, insert_found(mem, s, key, value)>> :
                       s \in {insert_loop(mem, key,
                                          Descent(root, None, 0, 0, "descend", 0),
                                          Len(key) + 1)}}} : TRUE

(* insert(root, key, value): { new_root, previous } *)
insert(mem, root, key, value) ==
    IF root = None
    THEN LET leaf == allocate_node(mem, LeafNode_new(key, value))
         IN  Inserted(leaf.mem, NodePtr_to_opaque(leaf.ptr).val, NoValue)
    ELSE insert_at(mem, root, key, value)

-----------------------------------------------------------------------------
(* Tree operations: delete and deallocate_tree *)

(* keys[0..size) and child_pointers[0..size) without position idx: the     *)
(* tail moves one position down                                            *)
remove_at(arr, size, idx) ==
    [i \in DOMAIN arr |->
        IF i < idx THEN arr[i]
        ELSE IF i < size - 1 THEN arr[i + 1]
        ELSE Uninit]

(* detach the child under key_fragment from an inner node: num_children    *)
(* goes down by one; an N48 keeps its children in the slots below          *)
(* num_children by moving the child of the last slot into the freed one    *)
remove_child(n, key_fragment) ==
    LET size == n.header.num_children
    IN  CASE n.type \in {"Node4", "Node16"} ->
               LET idx == position(n.keys, size, key_fragment, 0)
               IN  [n EXCEPT !.keys = remove_at(n.keys, size, idx),
                             !.child_pointers = remove_at(n.child_pointers, size, idx),
                             !.header.num_children = size - 1]
          [] n.type = "Node48" ->
               LET slot == n.child_indices[key_fragment]
                   last == size - 1
               IN  [n EXCEPT
                     !.child_indices = [b \in U8 |->
                          IF b = key_fragment THEN EMPTY
                          ELSE IF n.child_indices[b] = last THEN slot
                          ELSE n.child_indices[b]],
                     !.child_pointers = [i \in 0..47 |->
                          IF i = last THEN Uninit
                          ELSE IF i = slot THEN n.child_pointers[last]
                          ELSE n.child_pointers[i]],
                     !.header.num_children = size - 1]
          [] n.type = "Node256" ->
               [n EXCEPT !.child_pointers[key_fragment] = None,
                         !.header.num_children = size - 1]

(* the class a node shrinks to when its count drops to that class's        *)
(* capacity: N256 at 48, N48 at 16, N16 at 4                               *)
shrunk_type(n) ==
    CASE n.type = "Node256" /\ n.header.num_children = 48 -> "Node48"
      [] n.type = "Node48" /\ n.header.num_children = 16 -> "Node16"
      [] n.type = "Node16" /\ n.header.num_children = 4 -> "Node4"
      [] OTHER -> n.type

(* write the pairs items[index..] into n *)
RECURSIVE write_children(_, _, _)
write_children(n, items, index) ==
    IF index > Len(items) THEN Ok(n)
    ELSE LET w == write_child(n, items[index][1], items[index][2])
         IN  IF w.panic THEN w ELSE write_children(w.val, items, index + 1)

(* the node of the next smaller class with the same mapping and prefix *)
shrink(n) ==
    LET it == iter(n)
        smaller == [empty(shrunk_type(n)) EXCEPT !.header.prefix = n.header.prefix]
    IN  IF it.panic THEN Panic(n) ELSE write_children(smaller, it.val, 1)

Deleted(mem, ptr, removed) ==
    [panic |-> FALSE, mem |-> mem, ptr |-> ptr, removed |-> removed]

DeletePanic(mem, ptr) ==
    [panic |-> TRUE, mem |-> mem, ptr |-> ptr, removed |-> NoValue]

(* collapse: the inner node cur, left with the one child of n, gives way   *)
(* to that child; an inner child gets the prefix of cur and the byte that  *)
(* led to it put in front of its own prefix                                *)
delete_collapse(mem, cur, n, removed) ==
    LET it == iter(n)
        b == it.val[1][1]
        sole == it.val[1][2]
        child == NodeAt(mem, sole)
        h0 == write_prefix([child.header EXCEPT !.prefix = <<>>], n.header.prefix)
        h1 == write_prefix(h0.val, <<b>>)
        h2 == write_prefix(h1.val, child.header.prefix)
    IN  IF it.panic THEN DeletePanic(mem, cur)
        ELSE IF OpaqueNodePtr_is(sole, "Leaf")
        THEN Deleted(deallocate_node(mem, cur), sole, removed)
        ELSE Deleted(deallocate_node(
                         StoreAt(mem, sole, [child EXCEPT !.header = h2.val]), cur),
                     sole, removed)

(* the inner node cur after the leaf under byte b was removed below it *)
delete_detach(mem, cur, b, removed) ==
    LET n == remove_child(NodeAt(mem, cur), b)
    IN  IF n.header.num_children = 0
        THEN Deleted(deallocate_node(mem, cur), None, removed)
        ELSE IF n.header.num_children = 1
        THEN delete_collapse(mem, cur, n, removed)
        ELSE IF shrunk_type(n) # n.type
        THEN LET small == shrink(n)
                 new_node == allocate_node(mem, small.val)
             IN  IF small.panic THEN DeletePanic(mem, cur)
                 ELSE Deleted(deallocate_node(new_node.mem, cur),
                              NodePtr_to_opaque(new_node.ptr).val, removed)
        ELSE Deleted(StoreAt(mem, cur, n), cur, removed)

(* delete in the subtree cur with depth bytes of key consumed *)
RECURSIVE delete_at(_, _, _, _)
delete_at(mem, cur, key, depth) ==
    IF OpaqueNodePtr_is(cur, "Leaf")
    THEN LET leaf == NodeAt(mem, cur)
         IN  IF LeafNode_matches_key(leaf, key)
             THEN Deleted(deallocate_node(mem, cur), None,
                          Some(<<leaf.key, leaf.value>>))
             ELSE Deleted(mem, cur, NoValue)
    ELSE LET n == NodeAt(mem, cur)
             stored == prefix_size(n.header)
             m == match_prefix(n.header, SubSeq(key, depth + 1, Len(key))).val
         IN  IF m < stored \/ depth + stored >= Len(key)
             THEN Deleted(mem, cur, NoValue)
             ELSE LET b == key[depth + stored + 1]
                      child == lookup_child(n, b)
                  IN  IF child.panic THEN DeletePanic(mem, cur)
                      ELSE IF child.val = None THEN Deleted(mem, cur, NoValue)
                      ELSE LET r == delete_at(mem, child.val, key, depth + stored + 1)
                           IN  IF r.panic \/ r.removed = NoValue \/ r.ptr = child.val
                               THEN [r EXCEPT !.ptr = cur]
                               ELSE IF r.ptr = None
                               THEN delete_detach(r.mem, cur, b, r.removed)
                               ELSE LET w == write_child(NodeAt(r.mem, cur), b, r.ptr)
                                    IN  IF w.panic THEN DeletePanic(r.mem, cur)
                                        ELSE Deleted(StoreAt(r.mem, cur, w.val),
                                                     cur, r.removed)

(* delete(root, key): { new_root, removed } *)
delete(mem, root, key) ==
    IF root = None THEN Deleted(mem, None, NoValue)
    ELSE delete_at(mem, root, key, 0)

(* deallocate_tree: post-order, the children of a node in key order, then  *)
(* the node                                                                *)
RECURSIVE deallocate_subtree(_, _)
RECURSIVE deallocate_children(_, _, _)
deallocate_subtree(mem, cur) ==
    IF OpaqueNodePtr_is(cur, "Leaf") THEN Ok(deallocate_node(mem, cur))
    ELSE LET it == iter(NodeAt(mem, cur))
         IN  IF it.panic THEN Panic(mem)
             ELSE LET r == deallocate_children(mem, it.val, 1)
                  IN  IF r.panic THEN r ELSE Ok(deallocate_node(r.val, cur))

deallocate_children(mem, items, index) ==
    IF index > Len(items) THEN Ok(mem)
    ELSE LET r == deallocate_subtree(mem, items[index][2])
         IN  IF r.panic THEN r ELSE deallocate_children(r.val, items, index + 1)

deallocate_tree(mem, root) == deallocate_subtree(mem, root)

-----------------------------------------------------------------------------
(* Key generators of tests_common *)

u8_MAX == 255

u8_MIN == 0

(* vec![b; n] *)
Repeat(b, n) == [i \in 1..n |-> b]

(* the successor closure letting one key too many through *)
skewed_successor_one_more(max_len, prev) ==
    IF Len(prev) <= max_len
    THEN Some(Append(Repeat(u8_MIN, Len(prev)), u8_MAX))
    ELSE NoValue

(* the closure given to iter::successors in generate_keys_skewed *)
skewed_successor(max_len, prev) ==
    IF Len(prev) < max_len
    THEN Some(Append(Repeat(u8_MIN, Len(prev)), u8_MAX))
    ELSE NoValue

(* generate_keys_skewed(max_len): the assertion, then the Successors       *)
(* iterator holding the first key                                          *)
generate_keys_skewed(max_len) ==
    IF ~(max_len > 0) THEN Panic([max_len |-> max_len, next |-> NoValue])
    ELSE Ok([max_len |-> max_len, next |-> Some(Repeat(u8_MAX, 1))])

(* Successors::next: take the stored item, store its successor *)
Successors_next(it) ==
    IF it.next = NoValue THEN [it |-> it, item |-> NoValue]
    ELSE LET item == it.next[1]
         IN  [it |-> [it EXCEPT !.next = skewed_successor(it.max_len, item)],
              item |-> Some(item)]

(* div_ceil of FixedLengthKeys::new, on u8 *)
div_ceil(lhs, rhs) ==
    LET d == lhs \div rhs
        r == lhs % rhs
    IN  IF r > 0 /\ rhs > 0 THEN (d + 1) % 256 ELSE d

(* u8::wrapping_add in the place of saturating_add *)
wrapping_add(a, b) == (a + b) % 256

(* u8::saturating_add *)
saturating_add(a, b) == Min(a + b, u8_MAX)

(* FixedLengthKeys::new *)
FixedLengthKeys_new(max_len, value_stops) ==
    IF ~(max_len > 0) \/ ~(value_stops > 0)
    THEN Panic([increment |-> 0, next_value |-> NoValue])
    ELSE Ok([increment |-> div_ceil(u8_MAX, value_stops),
             next_value |-> Some(Repeat(u8_MIN, max_len))])

(* the for loop of FixedLengthKeys::next over idx (0-based), downwards *)
RECURSIVE FixedLengthKeys_next_loop(_, _, _)
FixedLengthKeys_next_loop(new_next_value, idx, increment) ==
    IF idx < 0 THEN new_next_value
    ELSE IF new_next_value[idx + 1] = u8_MAX
         THEN FixedLengthKeys_next_loop(
                  [new_next_value EXCEPT ![idx + 1] = u8_MIN], idx - 1, increment)
         ELSE [new_next_value EXCEPT
                  ![idx + 1] = saturating_add(new_next_value[idx + 1], increment)]

(* FixedLengthKeys::next *)
FixedLengthKeys_next(it) ==
    IF it.next_value = NoValue THEN [it |-> it, item |-> NoValue]
    ELSE LET next_value == it.next_value[1]
         IN  IF \A i \in 1..Len(next_value) : next_value[i] = u8_MAX
             THEN [it |-> [it EXCEPT !.next_value = NoValue],
                   item |-> Some(next_value)]
             ELSE [it |-> [it EXCEPT !.next_value =
                              Some(FixedLengthKeys_next_loop(
                                       next_value, Len(next_value) - 1,
                                       it.increment))],
                   item |-> Some(next_value)]

(* generate_key_fixed_length *)
generate_key_fixed_length(max_len, value_stops) ==
    FixedLengthKeys_new(max_len, value_stops)

-----------------------------------------------------------------------------
(* The generators as a state machine: node holds the iterator, the number  *)
(* of keys it has yielded, the last of them and, for the skewed keys, all  *)
(* of them.                                                                *)

(* generate_keys_skewed is called with max_len up to MaxSkewedLen *)
MaxSkewedLen == 6

(* generate_key_fixed_length is called with max_len up to MaxFixedLen and  *)
(* value_stops up to MaxStops                                              *)
MaxFixedLen == 2

MaxStops == 18

Generating(gen, max_len, value_stops, it) ==
    [gen |-> gen, max_len |-> max_len, value_stops |-> value_stops,
     it |-> it, count |-> 0, last |-> NoValue, yielded |-> <<>>]

InitKeys ==
    /\ node = Generating("none", 0, 0, NoValue)
    /\ before = node
    /\ call = Called("none", <<>>, <<>>)
    /\ ret = ReturnedUnit(Ok(0))

GenerateKeysSkewed(max_len) ==
    LET r == generate_keys_skewed(max_len)
    IN  /\ node' = IF r.panic THEN Generating("none", 0, 0, NoValue)
                   ELSE Generating("skewed", max_len, 0, r.val)
        /\ before' = Generating("none", 0, 0, NoValue)
        /\ call' = Called("generate_keys_skewed", <<max_len>>, <<>>)
        /\ ret' = ReturnedUnit(r)

GenerateKeyFixedLength(max_len, value_stops) ==
    LET r == generate_key_fixed_length(max_len, value_stops)
    IN  /\ node' = IF r.panic THEN Generating("none", 0, 0, NoValue)
                   ELSE Generating("fixed", max_len, value_stops, r.val)
        /\ before' = Generating("none", 0, 0, NoValue)
        /\ call' = Called("generate_key_fixed_length", <<max_len, value_stops>>, <<>>)
        /\ ret' = ReturnedUnit(r)

Yielded(n, r, keep) ==
    IF r.item = NoValue THEN [n EXCEPT !.it = r.it]
    ELSE [n EXCEPT !.it = r.it,
                   !.count = n.count + 1,
                   !.last = r.item,
                   !.yielded = IF keep THEN Append(n.yielded, r.item[1])
                               ELSE n.yielded]

SkewedNext ==
    /\ node.gen = "skewed"
    /\ LET r == Successors_next(node.it)
       IN  /\ node' = Yielded(node, r, TRUE)
           /\ ret' = Returned(FALSE, 0, FALSE, r.item)
    /\ before' = node
    /\ call' = Called("skewed_next", <<>>, <<>>)

FixedNext ==
    /\ node.gen = "fixed"
    /\ LET r == FixedLengthKeys_next(node.it)
       IN  /\ node' = Yielded(node, r, FALSE)
           /\ ret' = Returned(FALSE, 0, FALSE, r.item)
    /\ before' = node
    /\ call' = Called("fixed_next", <<>>, <<>>)

NextKeys ==
    \/ \E max_len \in 0..MaxSkewedLen : GenerateKeysSkewed(max_len)
    \/ \E max_len \in 0..MaxFixedLen : \E value_stops \in 0..MaxStops :
          GenerateKeyFixedLength(max_len, value_stops)
    \/ SkewedNext
    \/ FixedNext

SpecKeys == InitKeys /\ [][NextKeys]_vars

(* One iterator of generate_key_fixed_length driven to its end: the caller *)
(* calls next() as long as it has not seen None and once more after that,  *)
(* as a for loop over the iterator does.  The iterator is made with        *)
(* max_len up to MaxFixedLen and value_stops up to MaxStops, and with one  *)
(* byte and the value_stops of FewStops, up to the largest u8.             *)
FewStops == {100, 127, 128, 254, 255}

RunInputs ==
    {<<max_len, value_stops>> :
         max_len \in 1..MaxFixedLen, value_stops \in 1..MaxStops}
       \cup {<<1, value_stops>> : value_stops \in FewStops}

InitFixedRun ==
    /\ \E input \in RunInputs :
          /\ node = Generating("fixed", input[1], input[2],
                               generate_key_fixed_length(input[1], input[2]).val)
          /\ call = Called("generate_key_fixed_length", input, <<>>)
    /\ before = Generating("none", 0, 0, NoValue)
    /\ ret = ReturnedUnit(Ok(0))

NextFixedRun == FixedNext

SpecFixedRun ==
    InitFixedRun /\ [][NextFixedRun]_vars /\ WF_vars(NextFixedRun)

-----------------------------------------------------------------------------
(* The tree as a state machine: node holds the root pointer, the heap,     *)
(* the (key, value) pairs the embedder has stored and not deleted, the     *)
(* value of the next insert and the number of calls made.                  *)

(* at most MaxOps calls of insert, delete and deallocate_tree *)
MaxOps == 3

(* keys of which none is a prefix of another *)
TreeKeys ==
    {<<1>>, <<3>>, <<5>>, <<6>>, <<7, 1, 1>>, <<7, 1, 2>>, <<7, 2, 9>>}

(* the trees the calls start from: these keys inserted in this order *)
Prebuilt ==
    {<<>>,
     << <<1>>, <<2>>, <<3>>, <<4>> >>,
     << <<7, 1, 1>>, <<7, 1, 2>> >>}

Tree(root, mem, stored, next_value, ops, state) ==
    [root |-> root, mem |-> mem, stored |-> stored,
     next_value |-> next_value, ops |-> ops, state |-> state]

Tree_empty == Tree(None, Memory_empty, {}, 1, 0, "ready")

(* the number of keys test_memory_usage inserts *)
KEY_LENGTH_LIMIT == 255

(* the tree test_memory_usage starts from: the leaf of the first skewed    *)
(* key with the value 0 as the root, the next value 1                      *)
Tree_skewed ==
    LET key == generate_keys_skewed(KEY_LENGTH_LIMIT).val.next[1]
        leaf == allocate_node(Memory_empty, LeafNode_new(key, 0))
    IN  Tree(NodePtr_to_opaque(leaf.ptr).val, leaf.mem, {<<key, 0>>}, 1, 0,
             "skewed")

StoredKeys(t) == {pr[1] : pr \in t.stored}

Tree_insert(t, key, r) ==
    IF r.panic THEN [t EXCEPT !.mem = r.mem, !.state = "aborted"]
    ELSE [t EXCEPT !.root = r.ptr,
                   !.mem = r.mem,
                   !.stored = {pr \in t.stored : pr[1] # key}
                                 \cup {<<key, t.next_value>>},
                   !.next_value = t.next_value + 1]

RECURSIVE Build(_, _, _)
Build(t, keys, index) ==
    IF index > Len(keys) THEN t
    ELSE Build(Tree_insert(t, keys[index],
                           insert(t.mem, t.root, keys[index], t.next_value)),
               keys, index + 1)

InitTree ==
    /\ \/ \E keys \in Prebuilt : node = Build(Tree_empty, keys, 1)
       \/ node = Tree_skewed
    /\ before = node
    /\ call = Called("none", <<>>, <<>>)
    /\ ret = ReturnedUnit(Ok(0))

Insert(key) ==
    /\ node.state = "ready"
    /\ node.ops < MaxOps
    /\ LET r == insert(node.mem, node.root, key, node.next_value)
       IN  /\ node' = [Tree_insert(node, key, r) EXCEPT !.ops = node.ops + 1]
           /\ ret' = Returned(r.panic, r.ptr, FALSE, r.previous)
    /\ before' = node
    /\ call' = Called("insert", <<node.next_value>>, key)

(* the loop of test_memory_usage: the successor of the longest key stored  *)
(* is inserted with the next value                                         *)
InsertSkewed ==
    /\ node.state = "skewed"
    /\ \E prev \in {k \in StoredKeys(node) : Len(k) = Cardinality(node.stored)} :
          \E next \in {skewed_successor(KEY_LENGTH_LIMIT, prev)} :
             /\ next # NoValue
             /\ \E r \in {insert(node.mem, node.root, next[1], node.next_value)} :
                   /\ node' = Tree_insert(node, next[1], r)
                   /\ ret' = Returned(r.panic, r.ptr, FALSE, r.previous)
             /\ call' = Called("insert", <<node.next_value>>, next[1])
    /\ before' = node

Search(key) ==
    /\ node.state = "ready"
    /\ LET r == search(node.mem, node.root, key)
       IN  ret' = Returned(r.panic,
                           IF r.val = NoValue THEN 0
                           ELSE NodeAt(node.mem, r.val[1]).value,
                           r.val # NoValue, r.val)
    /\ before' = node
    /\ call' = Called("search", <<>>, key)
    /\ UNCHANGED node

Delete(key) ==
    /\ node.state = "ready"
    /\ node.ops < MaxOps
    /\ LET r == delete(node.mem, node.root, key)
       IN  /\ node' = IF r.panic
                      THEN [node EXCEPT !.mem = r.mem, !.state = "aborted"]
                      ELSE [node EXCEPT
                              !.root = r.ptr,
                              !.mem = r.mem,
                              !.stored = IF r.removed = NoValue THEN node.stored
                                         ELSE {pr \in node.stored : pr[1] # key},
                              !.ops = node.ops + 1]
           /\ ret' = Returned(r.panic, r.ptr, FALSE, r.removed)
    /\ before' = node
    /\ call' = Called("delete", <<>>, key)

DeallocateTree ==
    /\ node.state = "ready"
    /\ node.ops < MaxOps
    /\ node.root # None
    /\ LET r == deallocate_tree(node.mem, node.root)
       IN  /\ node' = [node EXCEPT !.root = None,
                                   !.mem = r.val,
                                   !.stored = {},
                                   !.ops = node.ops + 1,
                                   !.state = IF r.panic THEN "aborted"
                                             ELSE "destroyed"]
           /\ ret' = ReturnedUnit(Ok(0))
    /\ before' = node
    /\ call' = Called("deallocate_tree", <<>>, <<>>)

NextTree ==
    \/ \E key \in TreeKeys : Insert(key)
    \/ InsertSkewed
    \/ \E key \in TreeKeys : Search(key)
    \/ \E key \in TreeKeys : Delete(key)
    \/ DeallocateTree

SpecTree == InitTree /\ [][NextTree]_vars

-----------------------------------------------------------------------------
(* Properties of the inner nodes, under Spec *)

Capacity(n) == upper_capacity(n.type)

NumChildren(n) == n.header.num_children

(* The key bytes for which lookup_child finds a child in n *)
KeysPresent(n) == {b \in U8 : lookup_child(n, b).val # None}

WroteChild == call.name = "write_child"

(* C1: a write_child(b, p) on a node that holds fewer children than its    *)
(* class capacity returns normally, after it lookup_child(b) returns p and *)
(* lookup_child of every other key byte returns what it returned before.   *)
C1_WriteThenLookup ==
    (WroteChild /\ NumChildren(before) < Capacity(before)) =>
        /\ ~ret.panic
        /\ lookup_child(node, call.args[1]) = Ok(call.args[2])
        /\ \A b \in U8 \ {call.args[1]} :
              lookup_child(node, b) = lookup_child(before, b)

(* A new key byte was written between two held ones into an InnerNode16    *)
(* that had room for one more child.                                       *)
C1_Witness ==
    /\ WroteChild
    /\ before.type = "Node16"
    /\ NumChildren(before) = 15
    /\ call.args[1] = 235
    /\ lookup_child(before, 235) = Ok(None)
    /\ lookup_child(before, 236) # Ok(None)
    /\ lookup_child(node, 235) = Ok(call.args[2])
    /\ NumChildren(node) = 16

(* C2: a write_child of a key byte that is not present, on an InnerNode4,  *)
(* InnerNode16 or InnerNode48 that holds its class capacity of children,   *)
(* panics and leaves the node as it was.                                   *)
C2_WriteToFullPanics ==
    (/\ WroteChild
     /\ before.type \in {"Node4", "Node16", "Node48"}
     /\ NumChildren(before) = Capacity(before)
     /\ lookup_child(before, call.args[1]) = Ok(None)) =>
        /\ ret.panic
        /\ node = before
        /\ NumChildren(node) <= Capacity(node)

(* C3: grow of an InnerNode4, InnerNode16 or InnerNode48 returns a node of *)
(* the next class with the same header, in which lookup_child of every key *)
(* byte returns what it returns in the source node.                        *)
C3_GrowPreserves ==
    (call.name = "grow" /\ before.type # "Node256") =>
        /\ ~ret.panic
        /\ Capacity(node) > Capacity(before)
        /\ node.header = before.header
        /\ \A b \in U8 : lookup_child(node, b) = lookup_child(before, b)

(* What grow does on the nodes that hold no more children than their      *)
(* class capacity: there it preserves the header and every lookup.         *)
GrowPreservesWithinCapacity ==
    (call.name = "grow" /\ before.type # "Node256"
        /\ NumChildren(before) <= Capacity(before)) =>
        /\ ~ret.panic
        /\ Capacity(node) > Capacity(before)
        /\ node.header = before.header
        /\ \A b \in U8 : lookup_child(node, b) = lookup_child(before, b)

(* C4: is_full returns true exactly when num_children equals the class     *)
(* capacity.                                                               *)
C4_IsFullExact ==
    call.name = "is_full" =>
        /\ ~ret.panic
        /\ ret.flag = (NumChildren(before) = Capacity(before))

(* The children of n in ascending order of their key byte, by lookup_child *)
MinKey(n) == CHOOSE b \in KeysPresent(n) : \A c \in KeysPresent(n) : b <= c

MaxKey(n) == CHOOSE b \in KeysPresent(n) : \A c \in KeysPresent(n) : b >= c

(* C9: on a node that never had a new key byte written at capacity,        *)
(* first_child returns the child lookup_child finds for the smallest key   *)
(* byte present and last_child the one for the largest; each returns None  *)
(* exactly when the node has no children.                                  *)
C9_FirstLastChild ==
    (call.name \in {"first_child", "last_child"}
        /\ NumChildren(before) <= Capacity(before)) =>
        /\ ~ret.panic
        /\ (ret.val = None) = (NumChildren(before) = 0)
        /\ (ret.val = None) = (KeysPresent(before) = {})
        /\ (KeysPresent(before) # {} /\ call.name = "first_child") =>
               ret.val = lookup_child(before, MinKey(before)).val
        /\ (KeysPresent(before) # {} /\ call.name = "last_child") =>
               ret.val = lookup_child(before, MaxKey(before)).val

(* last_child returned a child other than the first one, of a node whose   *)
(* children were not written in ascending order of their key bytes.        *)
C9_Witness ==
    /\ call.name = "last_child"
    /\ before.type = "Node48"
    /\ NumChildren(before) >= 3
    /\ ~ret.panic
    /\ ret.val # first_child(before).val
    /\ before.child_indices[MaxKey(before)] < before.child_indices[MinKey(before)]

(* C10: iter yields num_children pairs, one for each key byte present, in  *)
(* strictly ascending order of the key byte, each pair with the child      *)
(* lookup_child finds for its key byte.                                    *)
C10_IterComplete ==
    call.name = "iter" =>
        /\ ~ret.panic
        /\ Len(ret.items) = NumChildren(before)
        /\ \A i \in 1..Len(ret.items) :
              lookup_child(before, ret.items[i][1]) = Ok(ret.items[i][2])
        /\ \A i \in 1..(Len(ret.items) - 1) : ret.items[i][1] < ret.items[i + 1][1]
        /\ KeysPresent(before) = {ret.items[i][1] : i \in 1..Len(ret.items)}

(* What iter does on the nodes that hold no more children than their      *)
(* class capacity: there it yields the pairs in ascending order.           *)
IterCompleteWithinCapacity ==
    (call.name = "iter" /\ NumChildren(before) <= Capacity(before)) =>
        /\ ~ret.panic
        /\ Len(ret.items) = NumChildren(before)
        /\ \A i \in 1..Len(ret.items) :
              lookup_child(before, ret.items[i][1]) = Ok(ret.items[i][2])
        /\ \A i \in 1..(Len(ret.items) - 1) : ret.items[i][1] < ret.items[i + 1][1]
        /\ KeysPresent(before) = {ret.items[i][1] : i \in 1..Len(ret.items)}

(* the (key byte, child) pairs an N4 or N16 stores in its first            *)
(* num_children positions                                                  *)
StoredPairs(n) ==
    {<<n.keys[i], n.child_pointers[i]>> : i \in 0..(NumChildren(n) - 1)}

KeysAscending(n) ==
    \A i \in 0..(NumChildren(n) - 2) : n.keys[i] < n.keys[i + 1]

(* C20: in every N4 and N16 state reached by write_child calls that write  *)
(* a new key byte only below capacity, and in every N16 that N4::grow      *)
(* produces, keys[0..num_children] is strictly ascending and               *)
(* child_pointers[i] is the child written for keys[i].                     *)
C20_KeysAscending ==
    /\ (node.type \in {"Node4", "Node16"} /\ NumChildren(node) <= Capacity(node)) =>
          KeysAscending(node)
    /\ (/\ WroteChild
        /\ before.type \in {"Node4", "Node16"}
        /\ NumChildren(before) <= Capacity(before)
        /\ call.args[1] \in KeysPresent(before)
              \/ NumChildren(before) < Capacity(before)) =>
          /\ ~ret.panic
          /\ StoredPairs(node) =
                {pr \in StoredPairs(before) : pr[1] # call.args[1]}
                   \cup {<<call.args[1], call.args[2]>>}
    /\ (/\ call.name = "grow"
        /\ before.type = "Node4"
        /\ NumChildren(before) <= Capacity(before)) =>
          /\ ~ret.panic
          /\ node.type = "Node16"
          /\ StoredPairs(node) = StoredPairs(before)

(* a new key byte was written in front of the three keys of an N4, which   *)
(* moved one position up with their children                               *)
C20_Witness ==
    /\ WroteChild
    /\ before.type = "Node4"
    /\ NumChildren(before) = 3
    /\ NumChildren(node) = 4
    /\ node.keys[0] = call.args[1]
    /\ node.child_pointers[0] = call.args[2]
    /\ \A i \in 0..2 : /\ node.keys[i + 1] = before.keys[i]
                       /\ node.child_pointers[i + 1] = before.child_pointers[i]

(* whether lookup_child returns for every key byte *)
LookupReturns(n) == \A b \in U8 : ~lookup_child(n, b).panic

(* C21: after every write_child that returns normally, on a node of any    *)
(* of the four classes, num_children is the number of key bytes for which  *)
(* lookup_child returns a child, it is one more than before when the byte  *)
(* written was new and the same when the byte was present, and it does     *)
(* not exceed the class capacity.                                          *)
C21_ChildCount ==
    (WroteChild /\ ~ret.panic) =>
        /\ LookupReturns(node)
        /\ NumChildren(node) = Cardinality(KeysPresent(node))
        /\ NumChildren(node) =
              IF call.args[1] \in KeysPresent(before)
              THEN NumChildren(before) ELSE NumChildren(before) + 1
        /\ NumChildren(node) <= Capacity(node)

(* What write_child does to the count on the nodes it is given with room   *)
(* for the byte: there the count follows the key bytes present.            *)
ChildCountWithinCapacity ==
    (/\ WroteChild
     /\ NumChildren(before) <= Capacity(before)
     /\ call.args[1] \in KeysPresent(before)
           \/ NumChildren(before) < Capacity(before)) =>
        /\ ~ret.panic
        /\ LookupReturns(node)
        /\ NumChildren(node) = Cardinality(KeysPresent(node))
        /\ NumChildren(node) =
              IF call.args[1] \in KeysPresent(before)
              THEN NumChildren(before) ELSE NumChildren(before) + 1
        /\ NumChildren(node) <= Capacity(node)

(* the key bytes to which the child_indices of an N48 give a slot *)
IndexedKeys(n) == {b \in U8 : n.child_indices[b] # EMPTY}

(* C22: in every N48, reached by write_child calls from the empty N48 or   *)
(* from what N16::grow returns, as many child_indices entries are          *)
(* non-EMPTY as num_children says, each of them is a slot below            *)
(* num_children, and no two key bytes have the same slot; N16::grow        *)
(* returns child_indices[keys[i]] = i and EMPTY elsewhere.                 *)
C22_N48IndexCoherence ==
    /\ node.type = "Node48" =>
          /\ Cardinality(IndexedKeys(node)) = NumChildren(node)
          /\ \A b \in IndexedKeys(node) :
                /\ node.child_indices[b] < NumChildren(node)
                /\ node.child_indices[b] >= 0
          /\ \A b, c \in IndexedKeys(node) :
                b # c => node.child_indices[b] # node.child_indices[c]
    /\ (call.name = "grow" /\ before.type = "Node16" /\ ~ret.panic) =>
          /\ node.type = "Node48"
          /\ \A i \in 0..(NumChildren(before) - 1) :
                node.child_indices[before.keys[i]] = i
          /\ IndexedKeys(node) =
                {before.keys[i] : i \in 0..(NumChildren(before) - 1)}

(* a new key byte was written to the N48 that grow made of a full N16: it  *)
(* took the slot after the sixteen slots grow had assigned                 *)
C22_Witness ==
    /\ WroteChild
    /\ node.type = "Node48"
    /\ NumChildren(before) = 16
    /\ NumChildren(node) = 17
    /\ before.child_indices[call.args[1]] = EMPTY
    /\ node.child_indices[call.args[1]] = 16
    /\ \A b \in IndexedKeys(before) : node.child_indices[b] < 16

(* the key bytes of the pairs iter yields, in the order it yields them *)
KeyOrder(n) == LET items == iter(n).val IN [i \in 1..Len(items) |-> items[i][1]]

(* the positions at which the child_pointers of n and m differ *)
ChangedSlots(n, m) ==
    {i \in DOMAIN n.child_pointers : n.child_pointers[i] # m.child_pointers[i]}

(* whether n stores the key byte b: among the keys of an N4 or N16, with a *)
(* slot in an N48, with a child in an N256                                 *)
HoldsKey(n, b) ==
    CASE n.type \in {"Node4", "Node16"} ->
             \E i \in 0..(Min(NumChildren(n), Capacity(n)) - 1) : n.keys[i] = b
      [] n.type = "Node48" -> n.child_indices[b] # EMPTY
      [] n.type = "Node256" -> n.child_pointers[b] # None

(* what write_child does when it replaces the child of b in before *)
OverwroteOnly ==
    /\ ~ret.panic
    /\ node.type = before.type
    /\ node.header = before.header
    /\ lookup_child(node, call.args[1]) = Ok(call.args[2])
    /\ \A b \in U8 \ {call.args[1]} :
          lookup_child(node, b) = lookup_child(before, b)
    /\ node.type \in {"Node4", "Node16"} => node.keys = before.keys
    /\ node.type = "Node48" => node.child_indices = before.child_indices
    /\ ~iter(node).panic
    /\ KeyOrder(node) = KeyOrder(before)
    /\ Cardinality(ChangedSlots(node, before)) <= 1

(* C24: write_child(b, p) with a key byte b that the node holds returns    *)
(* normally, on a node of any of the four classes, also one that holds its *)
(* class capacity of children; after it lookup_child(b) returns p, and the *)
(* header with num_children and the prefix, the stored key bytes and their *)
(* order, and the child of every other key byte are what they were.        *)
C24_OverwriteFrame ==
    (WroteChild /\ HoldsKey(before, call.args[1])) => OverwroteOnly

(* What write_child does to a key byte held by a node with no more         *)
(* children than its class capacity: there it replaces that child only.    *)
OverwriteFrameWithinCapacity ==
    (/\ WroteChild
     /\ HoldsKey(before, call.args[1])
     /\ NumChildren(before) <= Capacity(before)) => OverwroteOnly

(* the child of a key byte was replaced in an InnerNode48 and in an        *)
(* InnerNode4 that held their class capacity of children                   *)
OverwroteAtCapacity ==
    /\ WroteChild
    /\ before.type \in {"Node4", "Node48"}
    /\ NumChildren(before) = Capacity(before)
    /\ call.args[1] = 48
    /\ lookup_child(before, 48) \notin {Ok(None), Ok(call.args[2])}
    /\ lookup_child(node, 48) = Ok(call.args[2])
    /\ NumChildren(node) = Capacity(node)
    /\ Cardinality(ChangedSlots(node, before)) = 1

-----------------------------------------------------------------------------
(* Properties of the header, under SpecHeader *)

StoredPrefix(n) == read_prefix(n.header)

(* C5: the stored prefix never holds more than NUM_PREFIX_BYTES bytes; a   *)
(* write_prefix that would exceed them keeps the first NUM_PREFIX_BYTES.   *)
C5_PrefixTruncated ==
    /\ Len(StoredPrefix(node)) <= NUM_PREFIX_BYTES
    /\ (call.name = "write_prefix"
          /\ Len(StoredPrefix(before)) + Len(call.bytes) > NUM_PREFIX_BYTES) =>
           StoredPrefix(node) =
               SubSeq(StoredPrefix(before) \o call.bytes, 1, NUM_PREFIX_BYTES)

C8_MatchPrefixLongest ==
    call.name = "match_prefix" =>
        LET m == ret.val
            stored == StoredPrefix(before)
            candidate == call.bytes
            least == Min(prefix_size(before.header), Len(candidate))
        IN  /\ ~ret.panic
            /\ m <= least
            /\ \A i \in 1..m : stored[i] = candidate[i]
            /\ m = least \/ stored[m + 1] # candidate[m + 1]
            /\ node = before

(* match_prefix stopped at a differing byte after two equal ones, with an  *)
(* equal byte behind it.                                                   *)
C8_Witness ==
    /\ call.name = "match_prefix"
    /\ StoredPrefix(before) = <<7, 9, 9, 7>>
    /\ call.bytes = <<7, 9, 7>>
    /\ ret.val = 2

-----------------------------------------------------------------------------
(* Properties of tags, opaque pointers and indices, under SpecPointer *)

(* C11: the tags are N4=0, N16=1, N48=2, N256=3, Leaf=4, pairwise distinct *)
(* and below 8; from_u8(x) returns the class whose tag is x for x in 0..4  *)
(* and nothing for every other byte, so from_u8(t as u8) = Some(t).        *)
C11_FromU8Tags ==
    call.name = "from_u8" =>
        LET x == call.args[1]
        IN  /\ ret.items = (CASE x = 0 -> Some("Node4")
                              [] x = 1 -> Some("Node16")
                              [] x = 2 -> Some("Node48")
                              [] x = 3 -> Some("Node256")
                              [] x = 4 -> Some("Leaf")
                              [] OTHER -> NoValue)
            /\ \A t \in AllNodeTypes :
                  /\ NodeType_as_u8(t) < 8
                  /\ (x = NodeType_as_u8(t)) => (ret.items = Some(t))
            /\ \A t, u \in AllNodeTypes :
                  (NodeType_as_u8(t) = NodeType_as_u8(u)) => (t = u)

(* from_u8 was given the largest tag and returned the leaf class *)
C11_Witness ==
    /\ call.name = "from_u8"
    /\ call.args[1] = 4
    /\ ret.items = <<"Leaf">>

(* C12: for an opaque pointer built from a pointer to a node of class N,   *)
(* node_type() is N, is::<M>() holds and cast::<M>() returns a pointer     *)
(* only for M = N, that pointer has the original address, and              *)
(* to_node_ptr() returns the variant of class N.                           *)
C12_OpaqueRoundTrip ==
    LET N == node.pointer.type
        addr == node.pointer.addr
        M == call.args[1]
    IN  /\ call.name \in {"new", "to_opaque"} => ~ret.panic
        /\ call.name = "node_type" => (~ret.panic /\ ret.items = <<N>>)
        /\ call.name = "is" => (ret.flag <=> (M = NodeType_as_u8(N)))
        /\ call.name = "cast" =>
              IF M = NodeType_as_u8(N)
              THEN ret.items = <<[type |-> N, addr |-> addr]>>
              ELSE ret.items = <<>>
        /\ call.name = "to_node_ptr" =>
              /\ ~ret.panic
              /\ ret.items[1].variant = (IF N = "Leaf" THEN "LeafNode" ELSE N)
              /\ ret.items[1].ptr = [type |-> N, addr |-> addr]

(* a pointer to an N48 was cast back to its own class *)
C12_Witness ==
    /\ call.name = "cast"
    /\ node.pointer.type = "Node48"
    /\ call.args[1] = 2
    /\ ret.items = <<[type |-> "Node48", addr |-> node.pointer.addr]>>

(* C13: try_from(value) is Ok exactly when value < LIMIT; the Ok index     *)
(* converts back to value and differs from EMPTY (= LIMIT); otherwise the  *)
(* error carries the limit and the value; it never panics.                 *)
C13_TryFromRestricted ==
    call.name = "try_from" =>
        LET LIMIT == call.args[1]
            value == call.args[2]
        IN  /\ ~ret.panic
            /\ ret.flag <=> (value < LIMIT)
            /\ ret.flag => (ret.val = value /\ ret.val # RestrictedNodeIndex_EMPTY(LIMIT))
            /\ ~ret.flag => (ret.items = <<LIMIT, value>>)

(* try_from::<48> was given 48 and returned the error *)
C13_Witness ==
    /\ call.name = "try_from"
    /\ call.args = <<48, 48>>
    /\ ~ret.flag
    /\ ~ret.panic
    /\ ret.items = <<48, 48>>

-----------------------------------------------------------------------------
(* Properties of the key generators, under SpecKeys *)

IsPrefixOf(a, b) == Len(a) <= Len(b) /\ \A i \in 1..Len(a) : a[i] = b[i]

(* base ^ exp *)
RECURSIVE Power(_, _)
Power(base, exp) == IF exp = 0 THEN 1 ELSE base * Power(base, exp - 1)

(* C18: generate_keys_skewed(max_len) with max_len >= 1 yields exactly     *)
(* max_len keys, the i-th being i-1 bytes 0x00 and one byte 0xFF, so no    *)
(* key is a prefix of another; max_len = 0 panics.                         *)
C18_SkewedKeys ==
    /\ call.name = "generate_keys_skewed" => (ret.panic <=> call.args[1] = 0)
    /\ call.name = "skewed_next" =>
          IF ret.items = NoValue
          THEN /\ node.count = node.max_len
               /\ Len(node.yielded) = node.max_len
          ELSE LET i == node.count
                   key == ret.items[1]
               IN  /\ i = before.count + 1
                   /\ i <= node.max_len
                   /\ node.yielded[i] = key
                   /\ Len(key) = i
                   /\ \A j \in 1..(i - 1) : key[j] = 0
                   /\ key[i] = 255
                   /\ \A j \in 1..(i - 1) :
                         /\ ~IsPrefixOf(node.yielded[j], key)
                         /\ ~IsPrefixOf(key, node.yielded[j])

(* generate_keys_skewed(3) has yielded its three keys and then nothing *)
C18_Witness ==
    /\ call.name = "skewed_next"
    /\ node.max_len = 3
    /\ ret.items = NoValue
    /\ node.yielded = << <<255>>, <<0, 255>>, <<0, 0, 255>> >>

(* C19: generate_key_fixed_length(max_len, value_stops) produces exactly   *)
(* (value_stops + 1) ^ max_len keys, for max_len >= 1 and every            *)
(* value_stops in 1..255.                                                  *)
C19_FixedLengthCount ==
    (call.name = "fixed_next" /\ ret.items = NoValue) =>
        node.count = Power(node.value_stops + 1, node.max_len)

------------------------------------------------------------------------(* a < b in the lexicographic order of byte strings of one length *)
LexLess(a, b) ==
    \E i \in 1..Len(a) : /\ a[i] < b[i]
                         /\ \A j \in 1..(i - 1) : a[j] = b[j]

(* what a call of next() on the iterator of generate_key_fixed_length      *)
(* returned: the all-0x00 key first, then a key above the one before,      *)
(* each max_len bytes long, and None after the all-0xFF key and from then  *)
(* on                                                                      *)
FixedNextAscending ==
    call.name = "fixed_next" =>
        IF ret.items = NoValue
        THEN /\ before.count >= 1
             /\ before.last = Some(Repeat(255, before.max_len))
             /\ node.it.next_value = NoValue
             /\ node.count = before.count
        ELSE LET key == ret.items[1]
             IN  /\ Len(key) = node.max_len
                 /\ node.count = before.count + 1
                 /\ before.count = 0 => key = Repeat(0, node.max_len)
                 /\ before.count > 0 =>
                       /\ LexLess(before.last[1], key)
                       /\ before.last[1] # Repeat(255, node.max_len)

FixedExhausted == call.name = "fixed_next" /\ ret.items = NoValue

(* C25: the iterator of generate_key_fixed_length(max_len, value_stops),   *)
(* max_len >= 1 and value_stops >= 1, comes to its end: it yields keys of  *)
(* max_len bytes in strictly ascending lexicographic order, the first      *)
(* all 0x00 and the last all 0xFF, and after that next() returns None.     *)
C25_FixedTerminates ==
    /\ []FixedNextAscending
    /\ <>FixedExhausted
    /\ [](FixedExhausted => []FixedExhausted)

(* the nine keys of two bytes over {0x00, 0x80, 0xFF} were yielded, the    *)
(* last of them 0xFF 0xFF, and next() returned None                        *)
C25_Witness ==
    /\ FixedExhausted
    /\ node.max_len = 2
    /\ node.value_stops = 2
    /\ node.it.increment = 128
    /\ node.count = 9
    /\ node.last = Some(<<255, 255>>)

-----
(* Properties of the tree operations, under SpecTree *)

(* the value search finds for key, if any *)
SearchValue(t, key) ==
    LET r == search(t.mem, t.root, key)
    IN  IF r.panic \/ r.val = NoValue THEN NoValue
        ELSE IF ~OpaqueNodePtr_is(r.val[1], "Leaf") THEN NoValue
        ELSE IF NodeAt(t.mem, r.val[1]).key # key THEN NoValue
        ELSE Some(NodeAt(t.mem, r.val[1]).value)

LiveOfType(t, types) ==
    {k \in t.mem.live : t.mem.heap[k].type \in types}

LeafCount(t) == Cardinality(LiveOfType(t, {"Leaf"}))

(* C14: whatever distinct keys are inserted in whatever order, every       *)
(* insert returns and search then returns, for each key inserted, the      *)
(* leaf holding its value.                                                 *)
C14_InsertSearchRoundTrip ==
    /\ call.name = "insert" => ~ret.panic
    /\ node.state = "ready" =>
          \A pr \in node.stored : SearchValue(node, pr[1]) = Some(pr[2])

(* C15: after deallocate_tree, or after every key was deleted, no node is  *)
(* live, and no node is ever deallocated twice.                            *)
C15_AllocationBalance ==
    /\ ~node.mem.double_free
    /\ (call.name = "deallocate_tree" /\ node.state = "destroyed") =>
          node.mem.live = {}
    /\ (call.name = "delete" /\ node.state = "ready" /\ node.stored = {}) =>
          node.mem.live = {}

(* a tree of four keys with an inner root was destroyed *)
C15_Witness ==
    /\ call.name = "deallocate_tree"
    /\ Cardinality(before.stored) = 4
    /\ Cardinality(before.mem.live) = 5
    /\ node.mem.live = {}

(* C16: insert(k, v2) on a tree holding k with v1 returns Some(v1), search *)
(* then finds v2, and the number of leaves is unchanged.                   *)
C16_OverwriteReturnsPrevious ==
    (call.name = "insert" /\ call.bytes \in StoredKeys(before)) =>
        /\ ~ret.panic
        /\ \E pr \in before.stored :
              pr[1] = call.bytes /\ ret.items = Some(pr[2])
        /\ SearchValue(node, call.bytes) = Some(call.args[1])
        /\ LeafCount(node) = LeafCount(before)

(* a key two inner nodes below the root was overwritten *)
C16_Witness ==
    /\ call.name = "insert"
    /\ call.bytes = <<7, 1, 2>>
    /\ <<7, 2, 9>> \in StoredKeys(before)
    /\ ret.items = Some(2)
    /\ SearchValue(node, <<7, 1, 2>>) = Some(call.args[1])
    /\ call.args[1] > 2

(* C17: each delete of a stored key returns the (key, value) pair stored   *)
(* for it, and once every inserted key is deleted the tree is empty.       *)
C17_DeleteInvertsInsert ==
    (call.name = "delete" /\ call.bytes \in StoredKeys(before)) =>
        /\ ~ret.panic
        /\ \E pr \in before.stored :
              pr[1] = call.bytes /\ ret.items = Some(pr)
        /\ node.stored = before.stored \ {ret.items[1]}
        /\ \A pr \in node.stored : SearchValue(node, pr[1]) = Some(pr[2])
        /\ node.stored = {} => node.root = None

(* the second of two keys under a common prefix was deleted and left the   *)
(* empty tree                                                              *)
C17_Witness ==
    /\ call.name = "delete"
    /\ before.stored = {<<<<7, 1, 1>>, 1>>}
    /\ ~OpaqueNodePtr_is(before.root, "Node4")
    /\ OpaqueNodePtr_is(before.root, "Leaf")
    /\ node.ops = 2
    /\ node.root = None
    /\ ret.items = Some(<<<<7, 1, 1>>, 1>>)

InnerTypes == {"Node4", "Node16", "Node48", "Node256"}

(* whether the tree t was made by inserts of distinct keys alone *)
InsertsOnly(t) ==
    \/ t.state = "skewed"
    \/ t.state = "ready" /\ Cardinality(t.stored) = t.next_value - 1

(* C23: a tree that inserts have made, holding n >= 1 keys, consists of n  *)
(* leaves and at most n - 1 inner nodes, none of them with a single child, *)
(* so no more than 2n - 1 nodes are live, and no more were live at a time  *)
(* while distinct keys were inserted; in the run of the 255 skewed keys no *)
(* more than 511 blocks are live at a time.  An insert that panics leaves  *)
(* no more than 2n - 1 nodes live either.                                  *)
C23_NodeCountBound ==
    LET n == Cardinality(node.stored)
    IN  /\ (node.state \in {"ready", "skewed"} /\ n >= 1) =>
              /\ LeafCount(node) = n
              /\ Cardinality(LiveOfType(node, InnerTypes)) <= n - 1
              /\ \A k \in LiveOfType(node, InnerTypes) :
                    NumChildren(node.mem.heap[k]) >= 2
              /\ Cardinality(node.mem.live) <= 2 * n - 1
              /\ node.mem.live = LiveOfType(node, InnerTypes \cup {"Leaf"})
              /\ InsertsOnly(node) => node.mem.max_blocks <= 2 * n - 1
              /\ node.state = "skewed" =>
                    /\ n <= KEY_LENGTH_LIMIT
                    /\ node.mem.max_blocks <= 511
        /\ (node.state = "aborted" /\ call.name = "insert" /\ n >= 1) =>
              Cardinality(node.mem.live) <= 2 * n - 1

(* the last of the 255 skewed keys was inserted: 255 leaves and 254 inner  *)
(* nodes are live, and no more were                                        *)
C23_Witness ==
    /\ node.state = "skewed"
    /\ call.name = "insert"
    /\ Len(call.bytes) = KEY_LENGTH_LIMIT
    /\ Cardinality(node.stored) = KEY_LENGTH_LIMIT
    /\ LeafCount(node) = 255
    /\ Cardinality(LiveOfType(node, InnerTypes)) = 254
    /\ node.mem.max_blocks = 509

====
